---- MODULE Spec2Model ----
(***************************************************************************)
(* Fragment lifecycle of the pipeline engine:                              *)
(*   be/src/exec/pipeline/fragment_context.h    FragmentContext            *)
(*   be/src/exec/pipeline/fragment_context.cpp  FragmentContextManager     *)
(*                                                                         *)
(* A FragmentContext carries three fields that driver threads race on      *)
(* (_num_drivers, _final_status, _cancel_flag) plus the plain Status       *)
(* _s_status that the winner of the final-status latch writes.  Atomic     *)
(* operations are one action each; set_final_status and the manager's      *)
(* broadcast cancel are split at every shared access, with the position    *)
(* of each in-flight call kept in pc.                                      *)
(***************************************************************************)
EXTENDS Integers, FiniteSets, Sequences, TLC

\* ------------------------------------------------------------------ bounds
\* calls of set_final_status / cancel / finish that may be in flight at once
NumThreads == 2
\* FragmentContext objects that may be constructed
NumCtx == 2
\* fragment instance ids
NumIds == 2
\* largest driver set handed to set_drivers
MaxDrivers == 2
\* execution attempts (set_drivers calls) per context
MaxAttempts == 2
\* count_down_drivers calls explored beyond the installed driver count
MaxExtraCalls == 1
\* modelled width of size_t: the driver counter and the memory budgets live
\* in 0 .. 2^SizeBits - 1
SizeBits == 6
\* pipelines of the fragment whose life cycle is followed
MaxPipelines == 3
\* direct close_all_pipelines() calls made before the context is destroyed
MaxCloseCalls == 1
\* largest degree of parallelism and receiver count handed to the builder
MaxDop == 2
\* largest receiver count handed to a broadcast
MaxReceivers == 3
\* largest chunk size (rows) of the runtime state
MaxChunkSize == 2
\* operators the planner itself creates
MaxPlanOperators == 2
\* local exchanges one builder creates
MaxExchanges == 2
\* predecessor sequences handed to one gather
MaxPreds == 2
\* largest partition key of a row
MaxKey == 1
\* rows followed through the Partition exchanges
MaxRows == 2
\* requests handed to one AsyncDeltaWriter
MaxRequests == 2
\* ChunkRowCursor objects (storage for them) and ChunkHolder objects
MaxCursors == 3
MaxHolders == 2

Threads == 1..NumThreads
Ctxs == 1..NumCtx
Ids == 1..NumIds
SizeMod == 2 ^ SizeBits
\* int is narrower than size_t (32 bits against 64)
IntBits == SizeBits - 1
IntMax == 2 ^ (IntBits - 1) - 1
IntMin == 0 - 2 ^ (IntBits - 1)

\* ---------------------------------------------------------------- statuses
Statuses == {"OK", "Cancelled", "InternalError"}
StatusOK == "OK"
\* what drivers report through set_final_status, and what cancel is called with
DriverStatuses == {"OK", "InternalError"}
CancelStatuses == {"Cancelled"}
is_cancelled(s) == s = "Cancelled"

\* values of the atomic Status* _final_status: nullptr, &_s_status, or the
\* indeterminate non-null content of a pointer that was never stored to
Nullptr == "nullptr"
AddrSStatus == "&_s_status"
Wild == "indeterminate"
PtrValues == {Nullptr, AddrSStatus, Wild}

NoCtx == 0
Idle == [op |-> "idle", step |-> "idle", ctx |-> NoCtx, st |-> StatusOK]

VARIABLES
    fragment_contexts,  \* FragmentContextManager::_fragment_contexts, a set of <<id, ctx>>
    lock,               \* FragmentContextManager::_lock: 0, or the thread holding it
    mgr_todo,           \* map entries the broadcast cancel has still to visit
    constructed,        \* FragmentContext objects constructed so far
    num_drivers,        \* _num_drivers
    final_status,       \* _final_status (a PtrValues)
    s_status,           \* _s_status
    cancel_flag,        \* _cancel_flag
    promise_ready,      \* _finish_promise: shared state made ready
    threw,              \* a std::future_error has left unregister
    diag,               \* "[Driver] Canceled" warnings: <<attempt, reason>> per context
    pc,                 \* position of each in-flight call
    attempt,            \* history: set_drivers calls on the context
    installed,          \* history: size of the driver set of the last set_drivers
    cd_calls,           \* history: count_down_drivers calls since the last set_drivers
    cd_true,            \* history: how many of them returned true
    cd_true_left,       \* history: counter values left behind by those
    stores,             \* history: assignments to _s_status since the last set_drivers
    winner,             \* history: operation and argument of the call that won the latch in this attempt
    lost,               \* history: callers (set_final_status, cancel) that returned without storing in this attempt
    cancel_called,      \* history: cancel()/finish() has been entered on the context
    handed,             \* history: the latest run of get_or_register calls on one id: the id, and <<ctx, constructed it>> of each
    dropped,            \* history: <<id, ctx>> of the latest register_ctx that found its id present
    bcast,              \* history: what the running broadcast cancel found when it took the lock
    num_pipes,          \* _pipelines.size() of the context whose life cycle is followed
    plan,               \* _plan != nullptr
    life,               \* where that context is: idle, inside a call, or destroyed
    prepared,           \* Pipeline::prepare calls received by each pipeline
    closed,             \* Pipeline::close calls received by each pipeline
    prepare_ret,        \* what prepare_all_pipelines returned ("none" before)
    failed_first,       \* history: index and status of the first failing prepare
    close_calls,        \* history: close_all_pipelines calls that have returned
    teardown,           \* history: what the destructor has done, in order
    builder,            \* PipelineBuilderContext: _pipelines, the id counters, the exchangers made
    bld_dop,            \* PipelineBuilderContext::degree_of_parallelism()
    chunk_size,         \* state->chunk_size()
    open,               \* the operator sequence the planner is extending (empty: none)
    last,               \* history: the latest interpolation call, its input and what it handed back
    preds,              \* pred_operators_list: the child sequences the planner holds for a gather
    gathered,           \* history: pred_operators_list as the latest gather call received it
    routed,             \* history: the rows the Partition exchanges have routed
    got,                \* history: the id and the result of the latest get()
    adw,                \* AsyncDeltaWriter: its execution queue, the callbacks run, the requests taken, stop/join
    rows                \* the ChunkRowCursor objects, the ChunkHolder objects, and a fault once one occurred

ctxVars == <<num_drivers, final_status, s_status, cancel_flag, diag>>
ctxHist == <<attempt, installed, cd_calls, cd_true, cd_true_left, stores, winner, lost, cancel_called>>
mgrVars == <<fragment_contexts, lock, mgr_todo, constructed, promise_ready, threw,
            handed, dropped, bcast>>
lifeVars == <<num_pipes, plan, life, prepared, closed, prepare_ret, failed_first,
             close_calls, teardown>>
\* what the operations on the registry and on the latch never touch
bldVars == <<builder, bld_dop, chunk_size, open, last, preds, gathered, routed>>
restVars == <<lifeVars, bldVars, got, adw, rows>>
vars == <<fragment_contexts, lock, mgr_todo, constructed, num_drivers, final_status,
          s_status, cancel_flag, promise_ready, threw, diag, pc, attempt, installed,
          cd_calls, cd_true, cd_true_left, stores, winner, lost, cancel_called,
          handed, dropped, bcast, num_pipes, plan, life, prepared, closed, prepare_ret,
          failed_first, close_calls, teardown, builder, bld_dop, chunk_size, open, last,
          preds, gathered, routed, got, adw, rows>>

\* the callers whose lost latch attempts the history keeps
RecordedLosers == {"set_final_status", "cancel"}
NoWinner == [op |-> "none", st |-> StatusOK]
NoId == 0
NoneHanded == [id |-> NoId, rets |-> {}]
NoneDropped == <<NoId, NoCtx>>
NoneGot == [id |-> NoId, ret |-> NoCtx]
NoBcast == [ctxs |-> {}, unlatched |-> {}, attempt |-> <<>>]
Pipes == 1..MaxPipelines
LifeIdle == [op |-> "idle", step |-> "none", idx |-> 0]
NoFailure == [idx |-> 0, st |-> StatusOK]

\* a context without pipelines and plan, on which nothing has been called
NoLife ==
    /\ num_pipes = 0
    /\ plan = FALSE
    /\ life = LifeIdle
    /\ prepared = [i \in Pipes |-> 0]
    /\ closed = [i \in Pipes |-> 0]
    /\ prepare_ret = "none"
    /\ failed_first = NoFailure
    /\ close_calls = 0
    /\ teardown = <<>>

\* the first pseudo plan node id a builder hands out; the ids go downwards
FirstPseudoPlanNodeId == -1
\* the plan node the planner's own operators belong to
PlanNodeId == 1
\* an AsyncDeltaWriter that open() has just handed out: the execution queue
\* is started and empty, no request was taken and no callback run
NewWriter == [queue |-> <<>>, log |-> <<>>, next |-> 0, stop |-> "running"]
Cursors == 1..MaxCursors
Holders == 1..MaxHolders
\* no cursor and no holder constructed yet; a cursor's holder 0 is nullptr
NoRows == [cursor |-> [k \in Cursors |-> [live |-> FALSE, holder |-> 0]],
           holder |-> [h \in Holders |-> [state |-> "none", ref_count |-> 0, held |-> FALSE]],
           fault |-> "none"]
NoCall == [op |-> "none", n |-> 0, pred |-> <<>>, after |-> <<>>, ret |-> <<>>,
           aborted |-> FALSE]

\* a builder context of parallelism d over chunks of cs rows, nothing built yet
NewBuilder(d, cs) ==
    /\ builder = [pipelines |-> <<>>, next_operator_id |-> 0,
                  next_pseudo_plan_node_id |-> FirstPseudoPlanNodeId, exchangers |-> <<>>]
    /\ bld_dop = d
    /\ chunk_size = cs
    /\ open = <<>>
    /\ last = NoCall
    /\ preds = <<>>
    /\ gathered = <<>>
    /\ routed = <<>>

RestInit == NoLife /\ NewBuilder(1, 1)

\* ----------------------------------------------------------------- helpers
InFlight(c) == \E t \in Threads : pc[t].op # "idle" /\ pc[t].ctx = c

\* final_status(): nullptr reads as OK, otherwise the pointee is copied.
\* Dereferencing the indeterminate pointer is undefined: any status, or a crash.
FinalStatusOutcomes(c) ==
    CASE final_status[c] = Nullptr -> {StatusOK}
      [] final_status[c] = AddrSStatus -> {s_status[c]}
      [] OTHER -> Statuses \cup {"crash"}

is_canceled(c) == cancel_flag[c] = TRUE

\* FragmentContext(): only _cancel_flag is initialised; _s_status is a
\* default Status (OK); the two other atomics hold indeterminate values.
IndeterminatePtr == {Nullptr, Wild}
\* _num_drivers before the first set_drivers: never read, so kept as one value
\* outside the range of size_t
IndeterminateSize == -1

\* ------------------------------------------------- per-context operations
\* std::atomic<size_t>::fetch_sub(1): the value before, and the value stored
FetchSub1(old) == [ret |-> old, new |-> (old - 1) % SizeMod]

\* (mutant) set_drivers leaves the latch as the previous attempt left it
SetDriversKeepsLatch(c) == UNCHANGED final_status

\* line 63: _final_status.store(nullptr)
SetDriversLatch(c) == final_status' = [final_status EXCEPT ![c] = Nullptr]

\* set_drivers(drivers), with n = drivers.size(): lines 61-63 store the driver
\* set, the counter and a null _final_status; nothing else is written
SetDriversStores(c, n) ==
    /\ c \in constructed
    /\ attempt[c] < MaxAttempts
    /\ ~InFlight(c)
    /\ num_drivers' = [num_drivers EXCEPT ![c] = n % SizeMod]
    /\ SetDriversLatch(c)
    /\ attempt' = [attempt EXCEPT ![c] = @ + 1]
    /\ installed' = [installed EXCEPT ![c] = n]
    /\ cd_calls' = [cd_calls EXCEPT ![c] = 0]
    /\ cd_true' = [cd_true EXCEPT ![c] = 0]
    /\ cd_true_left' = [cd_true_left EXCEPT ![c] = {}]
    /\ stores' = [stores EXCEPT ![c] = 0]
    /\ winner' = [winner EXCEPT ![c] = NoWinner]
    /\ lost' = [lost EXCEPT ![c] = {}]
    /\ UNCHANGED <<s_status, diag, pc, cancel_called>>
    /\ UNCHANGED <<mgrVars, restVars>>

\* (mutant) set_drivers also re-arms the cancel flag for the new attempt
SetDriversResetsFlag(c, n) ==
    /\ SetDriversStores(c, n)
    /\ cancel_flag' = [cancel_flag EXCEPT ![c] = FALSE]

SetDrivers(c, n) ==
    /\ SetDriversStores(c, n)
    /\ UNCHANGED cancel_flag

\* (mutant) the comparison is made against the value after the decrement
CountDownResultPostValue(c) == FetchSub1(num_drivers[c]).ret = 0

\* (mutant) the comparison accepts every value up to one: fetch_sub(1) <= 1
CountDownResultUpToOne(c) == FetchSub1(num_drivers[c]).ret <= 1

\* count_down_drivers(): return _num_drivers.fetch_sub(1) == 1
CountDownResult(c) == FetchSub1(num_drivers[c]).ret = 1

CountDownDrivers(c) ==
    /\ c \in constructed
    /\ attempt[c] >= 1
    /\ cd_calls[c] < installed[c] + MaxExtraCalls
    /\ num_drivers' = [num_drivers EXCEPT ![c] = FetchSub1(@).new]
    /\ cd_calls' = [cd_calls EXCEPT ![c] = @ + 1]
    /\ cd_true' = [cd_true EXCEPT ![c] = IF CountDownResult(c) THEN @ + 1 ELSE @]
    /\ cd_true_left' = [cd_true_left EXCEPT ![c] =
                          IF CountDownResult(c) THEN @ \cup {FetchSub1(num_drivers[c]).new} ELSE @]
    /\ UNCHANGED <<final_status, s_status, cancel_flag, diag, pc>>
    /\ UNCHANGED <<attempt, installed, stores, winner, lost, cancel_called>>
    /\ UNCHANGED <<mgrVars, restVars>>

\* what an in-flight call becomes when set_final_status returns: the broadcast
\* goes on with its loop, every other caller is done
Returned(t) ==
    IF pc[t].op = "mgr_cancel"
    THEN [pc[t] EXCEPT !.step = "next", !.ctx = NoCtx]
    ELSE Idle

\* set_final_status, line 69: if (_final_status.load() != nullptr) return;
SfsLoadBody(t, c, s, op) ==
    /\ IF final_status[c] # Nullptr
       THEN /\ pc' = [pc EXCEPT ![t] = IF op = "mgr_cancel" THEN Returned(t) ELSE Idle]
            /\ lost' = [lost EXCEPT ![c] = @ \cup ({op} \cap RecordedLosers)]
       ELSE /\ pc' = [pc EXCEPT ![t] = [op |-> op, step |-> "cas", ctx |-> c, st |-> s]]
            /\ UNCHANGED lost
    /\ UNCHANGED <<num_drivers, final_status, s_status, diag>>
    /\ UNCHANGED <<attempt, installed, cd_calls, cd_true, cd_true_left, stores, winner, cancel_called>>
    /\ UNCHANGED <<mgrVars, restVars>>

\* a driver calls set_final_status(status) directly
SetFinalStatus(t, c, s) ==
    /\ pc[t] = Idle
    /\ c \in constructed
    /\ SfsLoadBody(t, c, s, "set_final_status")
    /\ UNCHANGED cancel_flag

\* (mutant) the flag is raised only while no final status is latched
CancelFlagStoreIfUnlatched(c) ==
    cancel_flag' = [cancel_flag EXCEPT ![c] = @ \/ final_status[c] = Nullptr]

\* line 89: _cancel_flag.store(true, std::memory_order_release)
CancelFlagStore(c) == cancel_flag' = [cancel_flag EXCEPT ![c] = TRUE]

\* cancel(status): line 89, then set_final_status(status)
CancelBody(t, c, s, op) ==
    /\ CancelFlagStore(c)
    /\ pc' = [pc EXCEPT ![t] = [op |-> op, step |-> "load", ctx |-> c, st |-> s]]
    /\ cancel_called' = [cancel_called EXCEPT ![c] = TRUE]
    /\ UNCHANGED <<num_drivers, final_status, s_status, diag>>
    /\ UNCHANGED <<attempt, installed, cd_calls, cd_true, cd_true_left, stores, winner, lost>>

Cancel(t, c, s) ==
    /\ pc[t] = Idle
    /\ c \in constructed
    /\ CancelBody(t, c, s, "cancel")
    /\ UNCHANGED <<mgrVars, restVars>>

\* (mutant) finish reports a cancellation
FinishStatusCancelled == "Cancelled"

\* finish() { cancel(Status::OK()); }
FinishStatus == StatusOK

Finish(t, c) ==
    /\ pc[t] = Idle
    /\ c \in constructed
    /\ CancelBody(t, c, FinishStatus, "finish")
    /\ UNCHANGED <<mgrVars, restVars>>

\* the load of line 69 inside cancel / finish / the broadcast
SfsLoad(t) ==
    /\ pc[t].step = "load"
    /\ SfsLoadBody(t, pc[t].ctx, pc[t].st, pc[t].op)
    /\ UNCHANGED cancel_flag

\* (mutant) a plain store in place of the compare-and-swap
CasAlwaysStores(c) == TRUE

\* lines 72-78: compare_exchange_strong(nullptr -> &_s_status); the winner then
\* evaluates _final_status.load()->is_cancelled() and final_status().to_string(),
\* both of which read _s_status as it is before line 79
CasSucceeds(c) == final_status[c] = Nullptr

SfsCas(t) ==
    /\ pc[t].step = "cas"
    /\ LET c == pc[t].ctx IN
       IF CasSucceeds(c)
       THEN /\ final_status' = [final_status EXCEPT ![c] = AddrSStatus]
            /\ diag' = [diag EXCEPT ![c] =
                          IF is_cancelled(s_status[c]) THEN @ \cup {<<attempt[c], s_status[c]>>} ELSE @]
            /\ pc' = [pc EXCEPT ![t].step = "assign"]
            /\ winner' = [winner EXCEPT ![c] = [op |-> pc[t].op, st |-> pc[t].st]]
            /\ UNCHANGED lost
       ELSE /\ pc' = [pc EXCEPT ![t] = Returned(t)]
            /\ lost' = [lost EXCEPT ![c] = @ \cup ({pc[t].op} \cap RecordedLosers)]
            /\ UNCHANGED <<final_status, diag, winner>>
    /\ UNCHANGED <<num_drivers, s_status, cancel_flag>>
    /\ UNCHANGED <<attempt, installed, cd_calls, cd_true, cd_true_left, stores, cancel_called>>
    /\ UNCHANGED <<mgrVars, restVars>>

\* line 79: _s_status = status
SfsAssign(t) ==
    /\ pc[t].step = "assign"
    /\ s_status' = [s_status EXCEPT ![pc[t].ctx] = pc[t].st]
    /\ stores' = [stores EXCEPT ![pc[t].ctx] = @ + 1]
    /\ pc' = [pc EXCEPT ![t] = Returned(t)]
    /\ UNCHANGED <<num_drivers, final_status, cancel_flag, diag>>
    /\ UNCHANGED <<attempt, installed, cd_calls, cd_true, cd_true_left, winner, lost, cancel_called>>
    /\ UNCHANGED <<mgrVars, restVars>>

\* ----------------------------------------------- one context, many drivers
\* A context as get_or_register leaves it, then used by the fragment executor
\* and its driver threads.
FreshCtxFields(ptr) ==
    /\ num_drivers = [c \in Ctxs |-> IndeterminateSize]
    /\ final_status = [c \in Ctxs |-> IF c = 1 THEN ptr ELSE Nullptr]
    /\ s_status = [c \in Ctxs |-> StatusOK]
    /\ cancel_flag = [c \in Ctxs |-> FALSE]
    /\ diag = [c \in Ctxs |-> {}]

HistInit ==
    /\ attempt = [c \in Ctxs |-> 0]
    /\ installed = [c \in Ctxs |-> 0]
    /\ cd_calls = [c \in Ctxs |-> 0]
    /\ cd_true = [c \in Ctxs |-> 0]
    /\ cd_true_left = [c \in Ctxs |-> {}]
    /\ stores = [c \in Ctxs |-> 0]
    /\ winner = [c \in Ctxs |-> NoWinner]
    /\ lost = [c \in Ctxs |-> {}]
    /\ cancel_called = [c \in Ctxs |-> FALSE]
    /\ got = NoneGot
    /\ adw = NewWriter
    /\ rows = NoRows

InitCtx ==
    /\ fragment_contexts = {<<1, 1>>}
    /\ lock = 0
    /\ mgr_todo = {}
    /\ constructed = {1}
    /\ promise_ready = [c \in Ctxs |-> FALSE]
    /\ threw = FALSE
    /\ handed = NoneHanded
    /\ dropped = NoneDropped
    /\ bcast = NoBcast
    /\ pc = [t \in Threads |-> Idle]
    /\ \E ptr \in IndeterminatePtr : FreshCtxFields(ptr)
    /\ HistInit
    /\ RestInit

\* the driver counter of a context across execution attempts, with the
\* executor finishing the fragment at any time
NextCount ==
    \/ \E c \in Ctxs, n \in 0..MaxDrivers : SetDrivers(c, n)
    \/ \E c \in Ctxs : CountDownDrivers(c)
    \/ \E t \in Threads, c \in Ctxs : Finish(t, c)
    \/ \E t \in Threads : SfsLoad(t)
    \/ \E t \in Threads : SfsCas(t)
    \/ \E t \in Threads : SfsAssign(t)

SpecCount == InitCtx /\ [][NextCount]_vars

\* the latch and the cancel flag of a context whose attempts run one driver
NextCtx ==
    \/ \E c \in Ctxs : SetDrivers(c, 1)
    \/ \E c \in Ctxs : CountDownDrivers(c)
    \/ \E t \in Threads, c \in Ctxs, s \in DriverStatuses : SetFinalStatus(t, c, s)
    \/ \E t \in Threads, c \in Ctxs, s \in CancelStatuses : Cancel(t, c, s)
    \/ \E t \in Threads, c \in Ctxs : Finish(t, c)
    \/ \E t \in Threads : SfsLoad(t)
    \/ \E t \in Threads : SfsCas(t)
    \/ \E t \in Threads : SfsAssign(t)

SpecCtx == InitCtx /\ [][NextCtx]_vars

\* successive execution attempts of a context: driver sets of any size, and
\* drivers and cancel requests racing for the latch of each attempt
NextAttempt ==
    \/ \E c \in Ctxs, n \in 0..MaxDrivers : SetDrivers(c, n)
    \/ \E t \in Threads, c \in Ctxs, s \in DriverStatuses : SetFinalStatus(t, c, s)
    \/ \E t \in Threads, c \in Ctxs, s \in CancelStatuses : Cancel(t, c, s)
    \/ \E t \in Threads : SfsLoad(t)
    \/ \E t \in Threads : SfsCas(t)
    \/ \E t \in Threads : SfsAssign(t)

SpecAttempt == InitCtx /\ [][NextAttempt]_vars

\* ------------------------------------------------ FragmentContextManager
\* _fragment_contexts.find(fragment_id): the context mapped to id, or NoCtx
Lookup(id) ==
    IF \E e \in fragment_contexts : e[1] = id
    THEN (CHOOSE e \in fragment_contexts : e[1] = id)[2]
    ELSE NoCtx

\* unordered_map::emplace: inserts unless the key is present
Emplace(m, id, c) == IF \E e \in m : e[1] = id THEN m ELSE m \cup {<<id, c>>}

\* the next object the allocator hands out
FreshCtx == CHOOSE c \in Ctxs \ constructed : \A d \in Ctxs \ constructed : c <= d

\* FragmentContext(): _final_status and _num_drivers are left indeterminate
Construct(c) ==
    /\ constructed' = constructed \cup {c}
    /\ \E ptr \in IndeterminatePtr : final_status' = [final_status EXCEPT ![c] = ptr]
    /\ num_drivers' = [num_drivers EXCEPT ![c] = IndeterminateSize]
    /\ UNCHANGED <<s_status, cancel_flag, diag>>

\* a caller builds a context of its own (std::make_shared<FragmentContext>())
\* to hand it to register_ctx
MakeCtx ==
    /\ constructed # Ctxs
    /\ Construct(FreshCtx)
    /\ UNCHANGED <<fragment_contexts, lock, mgr_todo, promise_ready, threw,
                   handed, dropped, bcast>>
    /\ UNCHANGED <<pc, ctxHist>>
    /\ UNCHANGED restVars

\* history of get_or_register(id) returning c
Handed(id, c, made) ==
    [id |-> id, rets |-> (IF handed.id = id THEN handed.rets ELSE {}) \cup {<<c, made>>}]

\* (mutant) get_or_register constructs without looking the id up
GorFindsNever(id) == FALSE

\* get_or_register, lines 12-13: it != _fragment_contexts.end()
GorFinds(id) == Lookup(id) # NoCtx

\* the pointer get_or_register returns: it->second.get() (line 14) or raw_ctx (line 19)
GorResult(id) == IF GorFinds(id) THEN Lookup(id) ELSE FreshCtx

\* get_or_register(fragment_id); the whole body runs under _lock, so callers
\* racing on one id are served one after another
GetOrRegister(id) ==
    /\ lock = 0
    /\ IF GorFinds(id)
       THEN /\ handed' = Handed(id, GorResult(id), FALSE)
            /\ UNCHANGED <<fragment_contexts, constructed, ctxVars>>
       ELSE /\ constructed # Ctxs
            /\ Construct(FreshCtx)
            /\ fragment_contexts' = Emplace(fragment_contexts, id, FreshCtx)
            /\ handed' = Handed(id, GorResult(id), TRUE)
    /\ UNCHANGED <<lock, mgr_todo, promise_ready, threw, dropped, bcast>>
    /\ UNCHANGED <<pc, ctxHist>>
    /\ UNCHANGED restVars

\* (mutant) register_ctx replaces the mapping: _fragment_contexts[id] = ctx
RegisterReplaces(m, id, c) == {e \in m : e[1] # id} \cup {<<id, c>>}

\* register_ctx, lines 26-30: return if the id is present, emplace otherwise
RegisterInsert(m, id, c) == IF \E e \in m : e[1] = id THEN m ELSE Emplace(m, id, c)

\* register_ctx(fragment_id, fragment_ctx) with a context the caller holds
RegisterCtx(id, c) ==
    /\ lock = 0
    /\ c \in constructed
    /\ fragment_contexts' = RegisterInsert(fragment_contexts, id, c)
    /\ dropped' = IF Lookup(id) # NoCtx THEN <<id, c>> ELSE dropped
    /\ UNCHANGED <<lock, mgr_todo, constructed, promise_ready, threw, handed, bcast>>
    /\ UNCHANGED <<pc, ctxVars, ctxHist>>
    /\ UNCHANGED restVars

\* get(fragment_id): the shared pointer mapped to the id, or nullptr
GetResult(id) == Lookup(id)

\* (mutant) the lookup is made with operator[], which inserts an empty
\* pointer under an id that is absent
GetFindInserts(m, id) == Emplace(m, id, NoCtx)

\* line 35: _fragment_contexts.find(fragment_id) leaves the map as it is
GetFind(m, id) == m

Get(id) ==
    /\ lock = 0
    /\ fragment_contexts' = GetFind(fragment_contexts, id)
    /\ got' = [id |-> id, ret |-> GetResult(id)]
    /\ UNCHANGED <<lock, mgr_todo, constructed, promise_ready, threw, handed, dropped, bcast>>
    /\ UNCHANGED <<pc, ctxVars, ctxHist, lifeVars, bldVars, adw, rows>>

\* std::promise<void>::set_value(): makes the shared state ready, or throws
\* std::future_error(promise_already_satisfied) when it is ready already
SetValueThrows(c) == promise_ready[c]

\* unregister(fragment_id), lines 44-49: set_value() comes before erase(), so a
\* throwing set_value leaves the entry in the map
Unregister(id) ==
    /\ lock = 0
    /\ LET c == Lookup(id) IN
       IF c = NoCtx
       THEN UNCHANGED <<fragment_contexts, promise_ready, threw, handed, dropped>>
       ELSE IF SetValueThrows(c)
            THEN /\ threw' = TRUE
                 /\ UNCHANGED <<fragment_contexts, promise_ready, handed, dropped>>
            ELSE /\ promise_ready' = [promise_ready EXCEPT ![c] = TRUE]
                 /\ UNCHANGED threw
                 /\ fragment_contexts' = fragment_contexts \ {<<id, c>>}
                 /\ handed' = IF handed.id = id THEN NoneHanded ELSE handed
                 /\ dropped' = IF dropped[1] = id THEN NoneDropped ELSE dropped
    /\ UNCHANGED <<lock, mgr_todo, constructed, bcast>>
    /\ UNCHANGED <<pc, ctxVars, ctxHist>>
    /\ UNCHANGED restVars

\* cancel(status), line 53: the lock is taken and the loop starts
MgrCancelBegin(t, s) ==
    /\ pc[t] = Idle
    /\ lock = 0
    /\ lock' = t
    /\ mgr_todo' = fragment_contexts
    /\ pc' = [pc EXCEPT ![t] = [op |-> "mgr_cancel", step |-> "next", ctx |-> NoCtx, st |-> s]]
    /\ bcast' = [ctxs |-> {e[2] : e \in fragment_contexts},
                 unlatched |-> {e[2] : e \in {x \in fragment_contexts : final_status[x[2]] # AddrSStatus}},
                 attempt |-> attempt]
    /\ UNCHANGED <<fragment_contexts, constructed, promise_ready, threw, handed, dropped>>
    /\ UNCHANGED <<ctxVars, ctxHist>>
    /\ UNCHANGED restVars

\* lines 54-55: the loop reaches an entry (in the map's own order) and calls
\* cancel(status) on its context, which first stores the flag
MgrCancelNext(t) ==
    /\ pc[t].op = "mgr_cancel"
    /\ pc[t].step = "next"
    /\ \E e \in mgr_todo :
          /\ mgr_todo' = mgr_todo \ {e}
          /\ CancelBody(t, e[2], pc[t].st, "mgr_cancel")
    /\ UNCHANGED <<fragment_contexts, lock, constructed, promise_ready, threw,
                   handed, dropped, bcast>>
    /\ UNCHANGED restVars

\* line 57: the loop is over, the lock is released
MgrCancelEnd(t) ==
    /\ pc[t].op = "mgr_cancel"
    /\ pc[t].step = "next"
    /\ mgr_todo = {}
    /\ lock' = 0
    /\ pc' = [pc EXCEPT ![t] = Idle]
    /\ bcast' = NoBcast
    /\ UNCHANGED <<fragment_contexts, mgr_todo, constructed, promise_ready, threw,
                   handed, dropped>>
    /\ UNCHANGED <<ctxVars, ctxHist>>
    /\ UNCHANGED restVars

NoFragments ==
    /\ fragment_contexts = {}
    /\ lock = 0
    /\ mgr_todo = {}
    /\ constructed = {}
    /\ promise_ready = [c \in Ctxs |-> FALSE]
    /\ threw = FALSE
    /\ handed = NoneHanded
    /\ dropped = NoneDropped
    /\ bcast = NoBcast
    /\ pc = [t \in Threads |-> Idle]
    /\ num_drivers = [c \in Ctxs |-> IndeterminateSize]
    /\ final_status = [c \in Ctxs |-> Nullptr]
    /\ s_status = [c \in Ctxs |-> StatusOK]
    /\ cancel_flag = [c \in Ctxs |-> FALSE]
    /\ diag = [c \in Ctxs |-> {}]
    /\ HistInit

InitMgr == NoFragments /\ RestInit

\* the registry under any sequence of its map operations
NextMgr ==
    \/ MakeCtx
    \/ \E id \in Ids : GetOrRegister(id)
    \/ \E id \in Ids, c \in Ctxs : RegisterCtx(id, c)
    \/ \E id \in Ids : Unregister(id)

SpecMgr == InitMgr /\ [][NextMgr]_vars

\* lookups among registrations and removals
NextGet ==
    \/ \E id \in Ids : GetOrRegister(id)
    \/ \E id \in Ids : Get(id)
    \/ \E id \in Ids : Unregister(id)

SpecGet == InitMgr /\ [][NextGet]_vars

\* the broadcast cancel among fragments that are registered, prepared once,
\* failed by their drivers and unregistered
PrepareOnce(c) == attempt[c] = 0 /\ SetDrivers(c, 1)

NextBcast ==
    \/ \E id \in Ids : GetOrRegister(id)
    \/ \E id \in Ids : Unregister(id)
    \/ \E c \in Ctxs : PrepareOnce(c)
    \/ \E t \in Threads, c \in Ctxs : SetFinalStatus(t, c, "InternalError")
    \/ \E t \in Threads : MgrCancelBegin(t, "Cancelled")
    \/ \E t \in Threads : MgrCancelNext(t)
    \/ \E t \in Threads : MgrCancelEnd(t)
    \/ \E t \in Threads : SfsLoad(t)
    \/ \E t \in Threads : SfsCas(t)
    \/ \E t \in Threads : SfsAssign(t)

SpecBcast == InitMgr /\ [][NextBcast]_vars

\* ------------------------------------ pipelines and teardown of a context
\* the registry and the latch are not involved
LifeFrame == UNCHANGED <<ctxVars, ctxHist, mgrVars, pc, bldVars, got, adw, rows>>

\* set_pipelines(pipelines), before anything is prepared
SetPipelines(n) ==
    /\ life = LifeIdle
    /\ num_pipes = 0 /\ prepare_ret = "none" /\ close_calls = 0
    /\ num_pipes' = n
    /\ UNCHANGED <<plan, life, prepared, closed, prepare_ret, failed_first, close_calls, teardown>>
    /\ LifeFrame

\* plan() = the root of the plan tree
AttachPlan ==
    /\ life = LifeIdle
    /\ ~plan
    /\ plan' = TRUE
    /\ UNCHANGED <<num_pipes, life, prepared, closed, prepare_ret, failed_first, close_calls, teardown>>
    /\ LifeFrame

\* what Pipeline::prepare may return
PrepareOutcomes == Statuses

\* (mutant) a failed prepare does not end the loop
ReturnIfErrorNever(st) == FALSE

\* RETURN_IF_ERROR, line 101: return the status when it is not OK
ReturnIfError(st) == st # StatusOK

\* prepare_all_pipelines(): the loop of line 100 is entered
PrepareAllPipelines ==
    /\ life = LifeIdle
    /\ prepare_ret = "none"
    /\ life' = [op |-> "prepare", step |-> "prepare_loop", idx |-> 1]
    /\ UNCHANGED <<num_pipes, plan, prepared, closed, prepare_ret, failed_first, close_calls, teardown>>
    /\ LifeFrame

\* line 101: the next pipeline of the list is prepared
PreparePipeline ==
    /\ life.op = "prepare"
    /\ life.idx <= num_pipes
    /\ \E st \in PrepareOutcomes :
          /\ prepared' = [prepared EXCEPT ![life.idx] = @ + 1]
          /\ failed_first' = IF st # StatusOK /\ failed_first = NoFailure
                             THEN [idx |-> life.idx, st |-> st]
                             ELSE failed_first
          /\ IF ReturnIfError(st)
             THEN life' = LifeIdle /\ prepare_ret' = st
             ELSE life' = [life EXCEPT !.idx = @ + 1] /\ UNCHANGED prepare_ret
    /\ UNCHANGED <<num_pipes, plan, closed, close_calls, teardown>>
    /\ LifeFrame

\* line 103: return Status::OK()
PrepareReturnOK ==
    /\ life.op = "prepare"
    /\ life.idx > num_pipes
    /\ prepare_ret' = StatusOK
    /\ life' = LifeIdle
    /\ UNCHANGED <<num_pipes, plan, prepared, closed, failed_first, close_calls, teardown>>
    /\ LifeFrame

\* (mutant) the destructor closes the pipelines before it releases the drivers
DtorOrderPipelinesFirst ==
    <<"close_all_in_filters", "close_all_pipelines", "drivers_clear", "plan_close">>

\* ~FragmentContext(), lines 32-36: the statements of the body in textual order
DtorOrder ==
    <<"close_all_in_filters", "drivers_clear", "close_all_pipelines", "plan_close">>

Gone == [op |-> "gone", step |-> "none", idx |-> 0]

\* where the destructor is after the statement `step` has finished
DtorAfter(step) ==
    LET k == CHOOSE i \in 1..Len(DtorOrder) : DtorOrder[i] = step IN
    IF k = Len(DtorOrder) THEN Gone ELSE [op |-> "dtor", step |-> DtorOrder[k + 1], idx |-> 1]

Did(step, i) == [step |-> step, idx |-> i]

\* the context is destroyed: the destructor body is entered
Destroy ==
    /\ life = LifeIdle
    /\ life' = [op |-> "dtor", step |-> DtorOrder[1], idx |-> 1]
    /\ UNCHANGED <<num_pipes, plan, prepared, closed, prepare_ret, failed_first, close_calls, teardown>>
    /\ LifeFrame

\* line 32: _runtime_filter_hub.close_all_in_filters(...)
DtorCloseInFilters ==
    /\ life.op = "dtor" /\ life.step = "close_all_in_filters"
    /\ teardown' = Append(teardown, Did("close_all_in_filters", 0))
    /\ life' = DtorAfter("close_all_in_filters")
    /\ UNCHANGED <<num_pipes, plan, prepared, closed, prepare_ret, failed_first, close_calls>>
    /\ LifeFrame

\* line 33: _drivers.clear()
DtorClearDrivers ==
    /\ life.op = "dtor" /\ life.step = "drivers_clear"
    /\ teardown' = Append(teardown, Did("drivers_clear", 0))
    /\ life' = DtorAfter("drivers_clear")
    /\ UNCHANGED <<num_pipes, plan, prepared, closed, prepare_ret, failed_first, close_calls>>
    /\ LifeFrame

\* close_all_pipelines() called by the owner of a live context
CloseAllPipelines ==
    /\ life = LifeIdle
    /\ close_calls < MaxCloseCalls
    /\ life' = [op |-> "close", step |-> "close_all_pipelines", idx |-> 1]
    /\ UNCHANGED <<num_pipes, plan, prepared, closed, prepare_ret, failed_first, close_calls, teardown>>
    /\ LifeFrame

\* (mutant) only pipelines that have been prepared are closed
ClosesOnlyPrepared(i) == prepared[i] > 0

\* lines 107-108: the loop body closes the pipeline, whatever its state
ClosesPipeline(i) == TRUE

\* line 108, for the next pipeline of the list (line 34 when in the destructor)
ClosePipeline ==
    /\ life.step = "close_all_pipelines"
    /\ life.idx <= num_pipes
    /\ IF ClosesPipeline(life.idx)
       THEN /\ closed' = [closed EXCEPT ![life.idx] = @ + 1]
            /\ teardown' = IF life.op = "dtor"
                           THEN Append(teardown, Did("pipe_close", life.idx))
                           ELSE teardown
       ELSE UNCHANGED <<closed, teardown>>
    /\ life' = [life EXCEPT !.idx = @ + 1]
    /\ UNCHANGED <<num_pipes, plan, prepared, prepare_ret, failed_first, close_calls>>
    /\ LifeFrame

\* line 110: the loop is over
CloseReturn ==
    /\ life.step = "close_all_pipelines"
    /\ life.idx > num_pipes
    /\ close_calls' = close_calls + 1
    /\ life' = IF life.op = "dtor" THEN DtorAfter("close_all_pipelines") ELSE LifeIdle
    /\ UNCHANGED <<num_pipes, plan, prepared, closed, prepare_ret, failed_first, teardown>>
    /\ LifeFrame

\* lines 35-37: if (_plan != nullptr) _plan->close(...)
DtorClosePlan ==
    /\ life.op = "dtor" /\ life.step = "plan_close"
    /\ teardown' = IF plan THEN Append(teardown, Did("plan_close", 0)) ELSE teardown
    /\ life' = DtorAfter("plan_close")
    /\ UNCHANGED <<num_pipes, plan, prepared, closed, prepare_ret, failed_first, close_calls>>
    /\ LifeFrame

InitLife == NoFragments /\ NoLife /\ NewBuilder(1, 1)

\* one fragment context from set_pipelines to its destruction
NextLife ==
    \/ \E n \in 1..MaxPipelines : SetPipelines(n)
    \/ AttachPlan
    \/ PrepareAllPipelines
    \/ PreparePipeline
    \/ PrepareReturnOK
    \/ CloseAllPipelines
    \/ ClosePipeline
    \/ CloseReturn
    \/ Destroy
    \/ DtorCloseInFilters
    \/ DtorClearDrivers
    \/ DtorClosePlan

SpecLife == InitLife /\ [][NextLife]_vars

\* ------------------------------------------------- PipelineBuilderContext
BuildFrame == UNCHANGED <<ctxVars, ctxHist, mgrVars, pc, lifeVars, got, adw, rows>>

\* an operator factory: its operator id, its plan node id, the degree of
\* parallelism (sources only) and the local exchanger it is bound to (0: none)
Factory(kind, id, pnid, dop, exch) ==
    [kind |-> kind, id |-> id, pnid |-> pnid, dop |-> dop, exch |-> exch]

is_source(f) == f.kind \in {"source", "lx_source"}

\* DCHECK(!pred_operators.empty() && pred_operators[0]->is_source())
Dcheck(pred) == pred # <<>> /\ is_source(pred[1])

\* down_cast<SourceOperatorFactory*>(pred_operators[0].get())->degree_of_parallelism()
SourceDop(pred) == pred[1].dop

Max(a, b) == IF a >= b THEN a ELSE b

\* a value brought into the range of int by two's complement wrap-around
WrapInt(v) == ((v - IntMin) % 2 ^ IntBits) + IntMin

\* the conversion of an integer value to size_t (the argument of the
\* LocalExchangeMemoryManager constructor): its residue modulo 2^SizeBits
ToSizeT(v) == v % SizeMod

\* a * b on two int operands.  A product outside the range of int is
\* undefined: a build that multiplies in an int register leaves the wrapped
\* value (wraps), one that has widened the arithmetic leaves the product.
IntMul(a, b, wraps) ==
    IF a * b >= IntMin /\ a * b <= IntMax THEN a * b
    ELSE IF wraps THEN WrapInt(a * b) ELSE a * b

\* (mutant) the buffer is sized for the receivers alone
PassthroughBufferSizeReceivers(n, dop) == n

\* line 55: buffer_size = std::max(num_receivers, static_cast<int>(dop))
PassthroughBufferSize(n, dop) == Max(n, WrapInt(dop))

\* line 56: state->chunk_size() * buffer_size, handed over as a size_t
PassthroughBudget(cs, n, dop, wraps) ==
    ToSizeT(IntMul(cs, PassthroughBufferSize(n, dop), wraps))

\* line 17: state->chunk_size() * num_receivers * num_receivers, multiplied
\* from the left on int operands and handed over as a size_t
BroadcastBudget(cs, n, wraps) == ToSizeT(IntMul(IntMul(cs, n, wraps), n, wraps))

\* (mutant) the budget is sized by the drivers of the predecessor
ShuffleBudgetOfPred(d, cs, dop) == ToSizeT(dop * cs)

\* line 91: shuffle_partitions_num * state->chunk_size(), a size_t product
ShuffleBudget(d, cs, dop) == ToSizeT(d * cs)

\* add_pipeline(operators): the sequence is appended to _pipelines as a pipeline
add_pipeline(B, ops) == [B EXCEPT !.pipelines = Append(@, ops)]

\* what a call hands back: the returned sequence, pred_operators as the call
\* leaves it (it is taken by reference), and the builder context
Outcome(ret, pred, B) == [ret |-> ret, pred |-> pred, builder |-> B, aborted |-> FALSE]
Aborted(pred, B) == [ret |-> <<>>, pred |-> pred, builder |-> B, aborted |-> TRUE]

\* (mutant) the sequence is sealed before the sink is appended to it
WithSinkNot(pred, sink) == pred

\* line 64: pred_operators.emplace_back(std::move(local_exchange_sink))
WithSink(pred, sink) == Append(pred, sink)

\* (mutant) the sink is given a pseudo plan node id of its own
SinkPlanNodeIdFresh(pnid) == pnid - 1

\* lines 61-62 (22-23, 100-101, 136-137): the sink factory is constructed with
\* the pseudo_plan_node_id the source factory was constructed with
SinkPlanNodeId(pnid) == pnid

\* The exchange-creating tail shared by the three interpolations (lines 16-34,
\* 54-73, 90-110): a pseudo plan node id, a memory manager with the budget, the
\* source factory with the next operator id, the exchanger, the sink factory
\* with the operator id after that; the sink is appended to pred_operators,
\* which is sealed; the source gets its parallelism and is returned alone.
Interpolate(B, pred, policy, budget, dop, senders) ==
    LET pnid == B.next_pseudo_plan_node_id
        x == Len(B.exchangers) + 1
        exchanger == [policy |-> policy, mem |-> budget, source |-> B.next_operator_id,
                      senders |-> senders]
        source == Factory("lx_source", B.next_operator_id, pnid, dop, x)
        sink == Factory("lx_sink", B.next_operator_id + 1, SinkPlanNodeId(pnid), 0, x)
        sealed == WithSink(pred, sink)
        B1 == [B EXCEPT !.next_pseudo_plan_node_id = @ - 1,
                        !.next_operator_id = @ + 2,
                        !.exchangers = Append(@, exchanger)]
    IN  Outcome(<<source>>, sealed, add_pipeline(B1, sealed))

\* (mutant) passthrough always interposes an exchange
PassthroughSkipsNever(pred, n) == FALSE

\* line 50: source_operator->degree_of_parallelism() == num_receivers
PassthroughSkips(pred, n) == SourceDop(pred) = n

\* (mutant) the new source keeps the parallelism of the predecessor
PassthroughSourceDopOfPred(pred, n) == SourceDop(pred)

\* line 70: local_exchange_source->set_degree_of_parallelism(num_receivers)
PassthroughSourceDop(pred, n) == n

\* maybe_interpolate_local_passthrough_exchange(state, pred_operators, num_receivers)
maybe_interpolate_local_passthrough_exchange(B, pred, n, cs, wraps) ==
    IF ~Dcheck(pred) THEN Aborted(pred, B)
    ELSE IF PassthroughSkips(pred, n) THEN Outcome(pred, pred, B)
    ELSE Interpolate(B, pred, "Passthrough", PassthroughBudget(cs, n, SourceDop(pred), wraps),
                     PassthroughSourceDop(pred, n), 0)

\* (mutant) the two-argument overload asks for two receivers
PassthroughDefaultReceiversTwo == 1 + 1

\* line 39: the two-argument overload passes num_receivers = 1
PassthroughDefaultReceivers == 1

\* (mutant) broadcast never falls back to passthrough
BroadcastDelegatesNever(n) == FALSE

\* line 12: num_receivers == 1
BroadcastDelegates(n) == n = 1

\* maybe_interpolate_local_broadcast_exchange(state, pred_operators, num_receivers)
maybe_interpolate_local_broadcast_exchange(B, pred, n, cs, wraps) ==
    IF BroadcastDelegates(n)
    THEN maybe_interpolate_local_passthrough_exchange(B, pred, PassthroughDefaultReceivers, cs,
                                                      wraps)
    ELSE Interpolate(B, pred, "Broadcast", BroadcastBudget(cs, n, wraps), n, 0)

\* (mutant) the exchange gets as many partitions as the predecessor has drivers
ShufflePartitionsOfPred(pred, d) == SourceDop(pred)

\* lines 82 and 107: shuffle_partitions_num = degree_of_parallelism() of the
\* builder context is the parallelism of the exchange source
ShufflePartitions(pred, d) == d

\* (mutant) only a parallelism of zero skips the shuffle
ShuffleSkipsOnlyZero(d) == d = 0

\* line 83: shuffle_partitions_num <= 1
ShuffleSkips(d) == d <= 1

\* maybe_interpolate_local_shuffle_exchange(state, pred_operators, exprs, part_type),
\* with d = degree_of_parallelism() of the builder context
maybe_interpolate_local_shuffle_exchange(B, pred, d, cs) ==
    IF ~Dcheck(pred) THEN Aborted(pred, B)
    ELSE IF ShuffleSkips(d) THEN Outcome(pred, pred, B)
    ELSE Interpolate(B, pred, "Partition", ShuffleBudget(d, cs, SourceDop(pred)),
                     ShufflePartitions(pred, d), SourceDop(pred))

\* lines 121-125: max_row_count, the sum over the predecessors of their source
\* parallelism times chunk_size; junk is what the read yields on a sequence
\* that has no source factory in front
RECURSIVE max_row_count(_, _, _)
max_row_count(list, cs, junk) ==
    IF list = <<>> THEN 0
    ELSE ToSizeT((IF Dcheck(Head(list)) THEN SourceDop(Head(list)) ELSE junk) * cs
                 + max_row_count(Tail(list), cs, junk))

\* (mutant) every predecessor gets a passthrough exchanger of its own
GatherSinkExchangerOwn(x, i) == x + i - 1

\* line 136: every sink is constructed over the one exchanger of line 132
GatherSinkExchanger(x, i) == x

\* (mutant) a single predecessor is sealed behind an exchange like any other
GatherSkipsNever(list) == FALSE

\* line 116: pred_operators_list.size() == 1
GatherSkips(list) == Len(list) = 1

\* (mutant) the source keeps the parallelism of the first predecessor
GatherSourceDopOfPred(list, d) == SourceDop(list[1])

\* line 144: local_exchange_source->set_degree_of_parallelism(degree_of_parallelism())
GatherSourceDop(list, d) == d

\* maybe_gather_pipelines_to_one(state, pred_operators_list), with d =
\* degree_of_parallelism() of the builder context.  The function asserts
\* nothing about its input: pred_ops[0] and the down_cast of lines 123-124 on
\* a sequence without a source in front are undefined, and either end the
\* process (crash) or read junk as the parallelism.
maybe_gather_pipelines_to_one(B, list, d, cs, crash, junk) ==
    IF GatherSkips(list) THEN [ret |-> list[1], list |-> list, builder |-> B, aborted |-> FALSE]
    ELSE IF crash /\ \E i \in DOMAIN list : ~Dcheck(list[i])
    THEN [ret |-> <<>>, list |-> list, builder |-> B, aborted |-> TRUE]
    ELSE
    LET pnid == B.next_pseudo_plan_node_id
        x == Len(B.exchangers) + 1
        exchanger == [policy |-> "Passthrough", mem |-> max_row_count(list, cs, junk),
                      source |-> B.next_operator_id, senders |-> 0]
        source == Factory("lx_source", B.next_operator_id, pnid, GatherSourceDop(list, d), x)
        sealed == [i \in DOMAIN list |->
                     WithSink(list[i], Factory("lx_sink", B.next_operator_id + i,
                                               SinkPlanNodeId(pnid), 0,
                                               GatherSinkExchanger(x, i)))]
        B1 == [B EXCEPT !.next_pseudo_plan_node_id = @ - 1,
                        !.next_operator_id = @ + 1 + Len(list),
                        !.exchangers = Append(@, exchanger),
                        !.pipelines = @ \o sealed]
    IN  [ret |-> <<source>>, list |-> sealed, builder |-> B1, aborted |-> FALSE]

\* the operator factories in the planner's hands and in the sealed pipelines
AllFactories ==
    UNION {{q[i] : i \in DOMAIN q} :
              q \in {open} \cup {builder.pipelines[j] : j \in DOMAIN builder.pipelines}}

\* how many of them the planner created
PlanOperators == Cardinality({f \in AllFactories : f.kind \in {"source", "operator"}})

\* the planner (ExecNode::decompose_to_pipeline) opens a sequence with a source
\* operator of parallelism d
NewSource(d) ==
    /\ open = <<>>
    /\ PlanOperators < MaxPlanOperators
    /\ open' = <<Factory("source", builder.next_operator_id, PlanNodeId, d, 0)>>
    /\ builder' = [builder EXCEPT !.next_operator_id = @ + 1]
    /\ UNCHANGED <<last, bld_dop, chunk_size, preds, gathered, routed>>
    /\ BuildFrame

\* the planner appends an operator to the sequence it is extending
AppendOperator ==
    /\ open # <<>>
    /\ PlanOperators < MaxPlanOperators
    /\ open' = Append(open, Factory("operator", builder.next_operator_id, PlanNodeId, 0, 0))
    /\ builder' = [builder EXCEPT !.next_operator_id = @ + 1]
    /\ UNCHANGED <<last, bld_dop, chunk_size, preds, gathered, routed>>
    /\ BuildFrame

\* the planner calls an interpolation on the sequence pred and goes on with
\* the sequence the call returns; a failed DCHECK ends the process
Call(pred, op, n, r) ==
    /\ ~last.aborted
    /\ Len(r.builder.exchangers) <= MaxExchanges
    /\ builder' = r.builder
    /\ open' = r.ret
    /\ last' = [op |-> op, n |-> n, pred |-> pred, after |-> r.pred, ret |-> r.ret,
                aborted |-> r.aborted]
    /\ UNCHANGED <<bld_dop, chunk_size, preds, gathered, routed>>
    /\ BuildFrame

PassthroughOn(pred, n) ==
    \E wraps \in BOOLEAN :
        Call(pred, "passthrough", n,
             maybe_interpolate_local_passthrough_exchange(builder, pred, n, chunk_size, wraps))

BroadcastOn(pred, n) ==
    \E wraps \in BOOLEAN :
        Call(pred, "broadcast", n,
             maybe_interpolate_local_broadcast_exchange(builder, pred, n, chunk_size, wraps))

ShuffleOn(pred) ==
    Call(pred, "shuffle", bld_dop,
         maybe_interpolate_local_shuffle_exchange(builder, pred, bld_dop, chunk_size))

\* a planner that keeps its part hands over the sequence it has opened
InterpolatePassthrough(n) == open # <<>> /\ PassthroughOn(open, n)

InterpolateBroadcast(n) == open # <<>> /\ BroadcastOn(open, n)

InterpolateShuffle == open # <<>> /\ ShuffleOn(open)

InitBuild ==
    /\ NoFragments
    /\ NoLife
    /\ \E d \in 0..MaxDop, cs \in 1..MaxChunkSize : NewBuilder(d, cs)

\* a planner building the pipelines of one fragment
NextBuild ==
    \/ \E d \in 1..MaxDop : NewSource(d)
    \/ AppendOperator
    \/ \E n \in 1..MaxDop : InterpolatePassthrough(n)
    \/ \E n \in 1..MaxReceivers : InterpolateBroadcast(n)
    \/ InterpolateShuffle

SpecBuild == InitBuild /\ [][NextBuild]_vars

\* the planner (a node with several children) opens one more child sequence
\* with a source operator of parallelism d
NewChild(d) ==
    /\ last.op = "none"
    /\ Len(preds) < MaxPreds
    /\ preds' = Append(preds, <<Factory("source", builder.next_operator_id, PlanNodeId, d, 0)>>)
    /\ builder' = [builder EXCEPT !.next_operator_id = @ + 1]
    /\ UNCHANGED <<open, last, bld_dop, chunk_size, gathered, routed>>
    /\ BuildFrame

\* the planner appends an operator to the child sequence it is building (the
\* latest); after the gather the list, taken by reference, is still in the
\* caller's hands, and one operator more is followed onto its first sequence
ChildOperator(k) ==
    /\ k \in DOMAIN preds
    /\ IF last.op = "none"
       THEN k = Len(preds) /\ Len(preds[k]) < MaxPlanOperators
       ELSE k = 1 /\ Len(preds[k]) < Len(gathered[k]) + 2
    /\ preds' = [preds EXCEPT ![k] =
                    Append(@, Factory("operator", builder.next_operator_id, PlanNodeId, 0, 0))]
    /\ builder' = [builder EXCEPT !.next_operator_id = @ + 1]
    /\ UNCHANGED <<open, last, bld_dop, chunk_size, gathered, routed>>
    /\ BuildFrame

\* the planner gathers the list it holds and goes on with the sequence handed back
GatherOn(list, crash, junk) ==
    LET r == maybe_gather_pipelines_to_one(builder, list, bld_dop, chunk_size, crash, junk)
    IN  /\ last.op = "none"
        /\ builder' = r.builder
        /\ open' = r.ret
        /\ preds' = r.list
        /\ gathered' = list
        /\ last' = [op |-> "gather", n |-> Len(list), pred |-> <<>>, after |-> <<>>,
                    ret |-> r.ret, aborted |-> r.aborted]
        /\ UNCHANGED <<bld_dop, chunk_size, routed>>
        /\ BuildFrame

Gather ==
    /\ preds # <<>>
    /\ \E crash \in BOOLEAN, junk \in 0..MaxDop : GatherOn(preds, crash, junk)

\* the planner appends an operator to the sequence the gather handed back
AppendDownstream ==
    /\ last.op = "gather" /\ ~last.aborted
    /\ Len(open) <= Len(last.ret)
    /\ open' = Append(open, Factory("operator", builder.next_operator_id, PlanNodeId, 0, 0))
    /\ builder' = [builder EXCEPT !.next_operator_id = @ + 1]
    /\ UNCHANGED <<last, bld_dop, chunk_size, preds, gathered, routed>>
    /\ BuildFrame

\* partition keys of the rows sent through an exchange
Keys == 0..MaxKey

\* the hash of a partition key; any fixed function of the key will do, this
\* one sends neighbouring keys to different residues
Hash(key) == (key * 5 + 3) % 2 ^ SizeBits

\* the exchange source bound to exchanger x, and with it the number of
\* destination partitions: one per driver of that source
ExchangeSource(x) == CHOOSE f \in AllFactories : f.kind = "lx_source" /\ f.exch = x

\* Partition routing as the specification gives it: hash(key) mod the number
\* of destination partitions
PartitionRoute(key, partitions) == Hash(key) % partitions

\* a driver of the sealed predecessor pipeline (sender) pushes a row with the
\* given key into the Partition exchange x
RouteRow(x, key, sender) ==
    /\ x \in DOMAIN builder.exchangers
    /\ builder.exchangers[x].policy = "Partition"
    /\ sender \in 1..builder.exchangers[x].senders
    /\ Len(routed) < MaxRows
    /\ routed' = Append(routed, [exch |-> x, key |-> key, sender |-> sender,
                                 dest |-> PartitionRoute(key, ExchangeSource(x).dop)])
    /\ UNCHANGED <<builder, open, last, bld_dop, chunk_size, preds, gathered>>
    /\ BuildFrame

\* shuffle exchanges are built and rows pushed through them
NextRoute ==
    \/ \E d \in 1..MaxDop : NewSource(d)
    \/ InterpolateShuffle
    \/ \E x \in 1..MaxExchanges, key \in Keys, sender \in 1..MaxDop : RouteRow(x, key, sender)

SpecRoute == InitBuild /\ [][NextRoute]_vars

\* a defective planner opens a sequence with an operator that is no source
NewOperatorFirst ==
    /\ open = <<>> /\ last.op = "none"
    /\ open' = <<Factory("operator", builder.next_operator_id, PlanNodeId, 0, 0)>>
    /\ builder' = [builder EXCEPT !.next_operator_id = @ + 1]
    /\ UNCHANGED <<last, bld_dop, chunk_size, preds, gathered, routed>>
    /\ BuildFrame

\* a defective planner puts an empty sequence, or one that starts with an
\* operator that is no source, into the list it is going to gather
MalformedChild(empty) ==
    /\ last.op = "none"
    /\ Len(preds) < MaxPreds
    /\ preds' = Append(preds, IF empty THEN <<>>
                              ELSE <<Factory("operator", builder.next_operator_id,
                                             PlanNodeId, 0, 0)>>)
    /\ builder' = [builder EXCEPT !.next_operator_id = @ + (IF empty THEN 0 ELSE 1)]
    /\ UNCHANGED <<open, last, bld_dop, chunk_size, gathered, routed>>
    /\ BuildFrame

\* gather is called with whatever list the planner holds, the empty list too
GatherAny == \E crash \in BOOLEAN, junk \in 0..MaxDop : GatherOn(preds, crash, junk)

\* the interpolations as a defective planner can call them: on nothing at
\* all, or on a sequence that does not start with a source
NextUnchecked ==
    \/ NewOperatorFirst
    \/ \E n \in 1..MaxDop : PassthroughOn(open, n)
    \/ \E n \in 1..MaxReceivers : BroadcastOn(open, n)
    \/ ShuffleOn(open)
    \/ \E d \in 1..MaxDop : NewChild(d)
    \/ \E empty \in BOOLEAN : MalformedChild(empty)
    \/ GatherAny

SpecUnchecked == InitBuild /\ [][NextUnchecked]_vars

\* the planner puts a passthrough exchange behind what the gather handed back
GatheredPassthrough(n) == last.op = "gather" /\ InterpolatePassthrough(n)

\* a planner gathering the children of one node
NextGather ==
    \/ \E d \in 1..MaxDop : NewChild(d)
    \/ \E k \in 1..MaxPreds : ChildOperator(k)
    \/ Gather
    \/ AppendDownstream
    \/ \E n \in 1..MaxDop : GatheredPassthrough(n)

SpecGather == InitBuild /\ [][NextGather]_vars

\* (mutant) the root sequence is put in front of the pipelines sealed so far
BuildSealsFirst(B, ops) == [B EXCEPT !.pipelines = <<ops>> \o @]

\* line 152: _context.add_pipeline(operators)
BuildSeals(B, ops) == add_pipeline(B, ops)

\* the planner is still decomposing the plan
Planning == last.op # "build" /\ ~last.aborted

\* PipelineBuilder::build: the sequence decompose_to_pipeline handed back (the
\* one the planner has been extending) is sealed as the last pipeline and the
\* list is returned
Build ==
    /\ Planning
    /\ open # <<>>
    /\ builder' = BuildSeals(builder, open)
    /\ last' = [op |-> "build", n |-> 0, pred |-> open, after |-> open, ret |-> open,
                aborted |-> FALSE]
    /\ UNCHANGED <<open, bld_dop, chunk_size, preds, gathered, routed>>
    /\ BuildFrame

PlanNewSource(d) == Planning /\ preds = <<>> /\ NewSource(d)

PlanAppendOperator == Planning /\ AppendOperator

PlanPassthrough(n) == Planning /\ InterpolatePassthrough(n)

PlanBroadcast(n) == Planning /\ InterpolateBroadcast(n)

PlanShuffle == Planning /\ InterpolateShuffle

PlanNewChild(d) == open = <<>> /\ NewChild(d)

\* decompose_to_pipeline followed from the first operator to the sequence of
\* the root, and build() sealing that
NextPlan ==
    \/ \E d \in 1..MaxDop : PlanNewSource(d)
    \/ PlanAppendOperator
    \/ \E n \in 1..MaxDop : PlanPassthrough(n)
    \/ \E n \in 1..MaxReceivers : PlanBroadcast(n)
    \/ PlanShuffle
    \/ \E d \in 1..MaxDop : PlanNewChild(d)
    \/ Gather
    \/ Build

SpecPlan == InitBuild /\ [][NextPlan]_vars

\* ------------------------------------------------------- AsyncDeltaWriter
WriterFrame == UNCHANGED <<ctxVars, ctxHist, mgrVars, pc, lifeVars, bldVars, got, rows>>

\* lines 80-85 and 95-100: the Task of request req; data says that the
\* request carries rows (chunk != nullptr and indexes_size > 0)
Task(req, via, data, commit_after_write) ==
    [req |-> req, via |-> via, data |-> data, commit_after_write |-> commit_after_write]

\* one call of a DeltaWriter step and whether its status was OK
Called(op, ok) == [op |-> op, ok |-> ok]

\* write_cb->run(st, info) for a task: the status (ok or an error), whether
\* a CommittedRowsetInfo was handed over, the DeltaWriter steps made for the
\* task, and whether the task went through the queue
Run(task, ok, info, steps, enqueued) ==
    [req |-> task.req, via |-> task.via, data |-> task.data,
     commit_after_write |-> task.commit_after_write,
     ok |-> ok, info |-> info, steps |-> steps, enqueued |-> enqueued]

\* (mutant) close and commit follow whenever the request asks for them
CommitFollowsAlways(st_ok, commit_after_write) == commit_after_write

\* line 31: st.ok() && iter->commit_after_write
CommitFollows(st_ok, commit_after_write) == st_ok /\ commit_after_write

\* lines 27-46, the body of the loop of _execute for one task; w_ok, c_ok
\* and m_ok are what DeltaWriter::write, close and commit answer
ExecuteTask(task, w_ok, c_ok, m_ok) ==
    LET written == IF task.data THEN <<Called("write", w_ok)>> ELSE <<>>
        st_ok == IF task.data THEN w_ok ELSE TRUE
    IN  IF CommitFollows(st_ok, task.commit_after_write)
        THEN IF ~c_ok THEN Run(task, FALSE, FALSE, written \o <<Called("close", FALSE)>>, TRUE)
             ELSE IF ~m_ok
             THEN Run(task, FALSE, FALSE,
                      written \o <<Called("close", TRUE), Called("commit", FALSE)>>, TRUE)
             ELSE Run(task, TRUE, TRUE,
                      written \o <<Called("close", TRUE), Called("commit", TRUE)>>, TRUE)
        ELSE Run(task, st_ok, FALSE, written, TRUE)

\* lines 86-90 and 101-105: execution_queue_execute either takes the task
\* (r = 0) or refuses it, and then the callback is run with an InternalError
Submit(task, r_ok) ==
    /\ adw' = IF r_ok
              THEN [adw EXCEPT !.next = @ + 1, !.queue = Append(@, task)]
              ELSE [adw EXCEPT !.next = @ + 1,
                               !.log = Append(@, Run(task, FALSE, FALSE, <<>>, FALSE))]
    /\ WriterFrame

\* AsyncDeltaWriter::write(req, cb)
Write(data, commit_after_write, r_ok) ==
    /\ adw.stop = "running"
    /\ adw.next < MaxRequests
    /\ Submit(Task(adw.next + 1, "write", data, commit_after_write), r_ok)

\* AsyncDeltaWriter::commit(cb)
Commit(r_ok) ==
    /\ adw.stop = "running"
    /\ adw.next < MaxRequests
    /\ Submit(Task(adw.next + 1, "commit", FALSE, TRUE), r_ok)

\* _execute on the task at the head of the queue: the execution queue hands
\* its tasks to one consumer in the order they were taken
Execute(w_ok, c_ok, m_ok) ==
    /\ adw.queue # <<>>
    /\ adw' = [adw EXCEPT !.queue = Tail(@),
                          !.log = Append(@, ExecuteTask(Head(adw.queue), w_ok, c_ok, m_ok))]
    /\ WriterFrame

ExecuteNext == \E w_ok, c_ok, m_ok \in BOOLEAN : Execute(w_ok, c_ok, m_ok)

\* line 14: the destructor stops the queue; tasks taken before stay in it
Stop ==
    /\ adw.stop = "running"
    /\ adw' = [adw EXCEPT !.stop = "stopped"]
    /\ WriterFrame

\* lines 22-24 and 16: the queue calls _execute a last time when the tasks
\* taken before the stop are done, with is_queue_stopped() true and nothing
\* to iterate, and the join of the destructor returns
ExecuteStopped ==
    /\ adw.stop = "stopped"
    /\ adw.queue = <<>>
    /\ adw' = [adw EXCEPT !.stop = "joined"]
    /\ WriterFrame

InitWriter == NoFragments /\ RestInit

NextWriter ==
    \/ \E data, commit_after_write, r_ok \in BOOLEAN : Write(data, commit_after_write, r_ok)
    \/ \E r_ok \in BOOLEAN : Commit(r_ok)
    \/ ExecuteNext
    \/ Stop
    \/ ExecuteStopped

\* the executor of the queue runs the tasks that are in it
SpecWriter == InitWriter /\ [][NextWriter]_vars /\ WF_vars(ExecuteNext)

\* --------------------------------------------- ChunkHolder, ChunkRowCursor
CursorFrame == UNCHANGED <<ctxVars, ctxHist, mgrVars, pc, lifeVars, bldVars, got, adw>>

\* a dereference of the holder pointer p: of nullptr, of a deleted holder, or sound
Deref(R, p) ==
    IF p = 0 THEN "null_deref"
    ELSE IF R.holder[p].state # "live" THEN "use_after_delete"
    ELSE "none"

\* line 34: ChunkHolder::ref through the pointer p.  Through nullptr or a
\* deleted holder the call is undefined; the fault is recorded and nothing
\* is followed beyond it.
ref(R, p) ==
    IF Deref(R, p) # "none" THEN [R EXCEPT !.fault = Deref(R, p)]
    ELSE [R EXCEPT !.holder[p].ref_count = @ + 1, !.holder[p].held = TRUE]

\* lines 27-33: ChunkHolder::unref, which deletes the holder at zero
unref(R, p) ==
    IF Deref(R, p) # "none" THEN [R EXCEPT !.fault = Deref(R, p)]
    ELSE IF R.holder[p].ref_count - 1 = 0
    THEN [R EXCEPT !.holder[p].ref_count = 0, !.holder[p].state = "deleted"]
    ELSE [R EXCEPT !.holder[p].ref_count = @ - 1]

\* lines 56-58 and 78-80: if (_holder) _holder->unref()
unref_if_set(R, p) == IF p # 0 THEN unref(R, p) ELSE R

\* a step on the cursors, none being followed after a fault
Step(R) ==
    /\ rows.fault = "none"
    /\ rows' = R
    /\ CursorFrame

\* line 25: a holder is constructed on the heap with _ref_count 0
NewHolder(h) ==
    /\ rows.holder[h].state = "none"
    /\ Step([rows EXCEPT !.holder[h].state = "live"])

\* line 48: ChunkRowCursor(row_id, holder), on a holder that exists
ConstructCursor(k, h) ==
    /\ ~rows.cursor[k].live
    /\ rows.holder[h].state = "live"
    /\ Step(ref([rows EXCEPT !.cursor[k] = [live |-> TRUE, holder |-> h]], h))

\* lines 49-53: the copy constructor
CopyConstruct(k, o) ==
    /\ ~rows.cursor[k].live /\ rows.cursor[o].live
    /\ Step(ref([rows EXCEPT !.cursor[k] = [live |-> TRUE, holder |-> rows.cursor[o].holder]],
                rows.cursor[o].holder))

\* lines 55-63: copy assignment k = o; o may be k itself, and other._holder
\* is read (line 60) after the unref of line 57
CopyAssign(k, o) ==
    /\ rows.cursor[k].live /\ rows.cursor[o].live
    /\ LET R1 == unref_if_set(rows, rows.cursor[k].holder)
           p == R1.cursor[o].holder
       IN  Step(IF R1.fault # "none" THEN R1
                ELSE ref([R1 EXCEPT !.cursor[k].holder = p], p))

\* lines 65-69: the move constructor leaves other with a null holder
MoveConstruct(k, o) ==
    /\ ~rows.cursor[k].live /\ rows.cursor[o].live
    /\ Step([rows EXCEPT !.cursor[k] = [live |-> TRUE, holder |-> rows.cursor[o].holder],
                         !.cursor[o].holder = 0])

\* lines 71-75: move assignment swaps the two holders
MoveAssign(k, o) ==
    /\ rows.cursor[k].live /\ rows.cursor[o].live
    /\ Step([rows EXCEPT !.cursor[k].holder = rows.cursor[o].holder,
                         !.cursor[o].holder = rows.cursor[k].holder])

\* lines 77-81: the destructor
Destruct(k) ==
    /\ rows.cursor[k].live
    /\ Step(unref_if_set([rows EXCEPT !.cursor[k] = [live |-> FALSE, holder |-> 0]],
                         rows.cursor[k].holder))

InitCursor == NoFragments /\ RestInit

NextCursor ==
    \/ \E h \in Holders : NewHolder(h)
    \/ \E k \in Cursors, h \in Holders : ConstructCursor(k, h)
    \/ \E k, o \in Cursors : CopyConstruct(k, o)
    \/ \E k, o \in Cursors : CopyAssign(k, o)
    \/ \E k, o \in Cursors : MoveConstruct(k, o)
    \/ \E k, o \in Cursors : MoveAssign(k, o)
    \/ \E k \in Cursors : Destruct(k)

SpecCursor == InitCursor /\ [][NextCursor]_vars

\* ------------------------------------------------------------- properties
AssignPending(c) == \E t \in Threads : pc[t].step = "assign" /\ pc[t].ctx = c
\* the latch is taken and its winner has finished storing
Latched(c) == final_status[c] = AddrSStatus /\ ~AssignPending(c)
\* thread t takes this step
Moves(t) == pc'[t] # pc[t]
\* the step begins or continues a call of operation op on context c by thread t
StepOf(t, op, c) ==
    \/ pc[t].op = op /\ pc[t].ctx = c
    \/ pc[t] = Idle /\ pc'[t].op = op /\ pc'[t].ctx = c

\* C1: on a context whose set_drivers installed N >= 1 drivers, once
\* count_down_drivers has been invoked exactly N times exactly one invocation
\* has returned true, and that invocation left the counter at 0 (it took it
\* from 1 to 0).
C1_ExactlyOneTrue ==
    \A c \in constructed :
        (attempt[c] >= 1 /\ installed[c] >= 1 /\ cd_calls[c] = installed[c])
            => (cd_true[c] = 1 /\ cd_true_left[c] = {0} /\ num_drivers[c] = 0)

C1_Witness ==
    /\ installed[1] = MaxDrivers /\ MaxDrivers >= 2
    /\ cd_calls[1] = installed[1]
    /\ cd_true[1] = 1

\* C2: set_final_status is a first-writer-wins latch.  Within one execution
\* attempt at most one call stores its status; once the calls have returned
\* and one of them was made, exactly one has stored and final_status() returns
\* the argument of that call; and a status that is latched is not replaced by
\* any later call of the attempt.
C2_Latch ==
    \A c \in constructed :
        attempt[c] >= 1 =>
            /\ stores[c] <= 1
            /\ (~InFlight(c) /\ (winner[c] # NoWinner \/ lost[c] # {}))
                   => /\ stores[c] = 1
                      /\ winner[c] # NoWinner
                      /\ FinalStatusOutcomes(c) = {winner[c].st}

C2_Retained ==
    \A c \in constructed :
        (attempt[c] >= 1 /\ Latched(c) /\ attempt'[c] = attempt[c])
            => (final_status'[c] = AddrSStatus /\ s_status'[c] = s_status[c])

C2_FirstWriterWins == []C2_Latch /\ [][C2_Retained]_vars

C2_Witness ==
    /\ attempt[1] >= 1
    /\ ~InFlight(1)
    /\ stores[1] = 1
    /\ winner[1] = [op |-> "set_final_status", st |-> "InternalError"]
    /\ "set_final_status" \in lost[1]
    /\ FinalStatusOutcomes(1) = {"InternalError"}

\* C3: cancel(status) sets the cancel flag unconditionally: from the moment
\* cancel has been entered is_canceled() is true, also when a final status was
\* latched before, and no step of a cancel call changes a latched status.
C3_FlagSet ==
    \A c \in constructed : cancel_called[c] => is_canceled(c)

C3_LatchKept ==
    \A t \in Threads, c \in Ctxs :
        (Moves(t) /\ StepOf(t, "cancel", c))
            => /\ is_canceled(c)'
               /\ Latched(c) => (final_status'[c] = final_status[c] /\ s_status'[c] = s_status[c])

C3_CancelUnconditional == []C3_FlagSet /\ [][C3_LatchKept]_vars

\* a cancel call has returned without storing, on a context latched by a
\* direct set_final_status
C3_Witness ==
    /\ ~InFlight(1)
    /\ winner[1] = [op |-> "set_final_status", st |-> "InternalError"]
    /\ "cancel" \in lost[1]
    /\ is_canceled(1)
    /\ FinalStatusOutcomes(1) = {"InternalError"}

\* C9: the cancel flag is monotone: no step of cancel, finish,
\* set_final_status, count_down_drivers or set_drivers takes it from true to false.
C9_Step == \A c \in Ctxs : is_canceled(c) => is_canceled(c)'

C9_CancelMonotone == [][C9_Step]_vars

\* the flag was set in an earlier attempt and survived set_drivers and a count down
C9_Witness ==
    /\ is_canceled(1)
    /\ attempt[1] = 2
    /\ final_status[1] = Nullptr
    /\ s_status[1] = "Cancelled"
    /\ cd_calls[1] >= 1

\* C10: finish() has the effect of cancel(OK): entering it sets the cancel
\* flag and starts set_final_status with an OK status; when the call wins the
\* latch final_status() is OK once it returns; when it does not, it leaves
\* the pointer and the stored status as they were.
C10_Step ==
    \A t \in Threads, c \in Ctxs :
        (Moves(t) /\ StepOf(t, "finish", c))
            => /\ is_canceled(c)'
               /\ pc[t] = Idle => (pc'[t].step = "load" /\ pc'[t].st = StatusOK)
               /\ pc[t].step = "assign" => (FinalStatusOutcomes(c)' = {StatusOK} /\ pc'[t] = Idle)
               /\ (pc[t].step = "cas" /\ pc'[t].step = "assign") => final_status'[c] = AddrSStatus
               /\ (pc[t].step \in {"load", "cas"} /\ pc'[t].step # "assign")
                      => (final_status'[c] = final_status[c] /\ s_status'[c] = s_status[c])

C10_FinishIsCancelOK == [][C10_Step]_vars

\* finish won the latch of the second attempt over a stale Cancelled status
C10_Witness ==
    /\ ~InFlight(1)
    /\ attempt[1] = 2
    /\ winner[1] = [op |-> "finish", st |-> StatusOK]
    /\ <<2, "Cancelled">> \in diag[1]
    /\ FinalStatusOutcomes(1) = {StatusOK}
    /\ is_canceled(1)

\* C4: callers of get_or_register racing on one id that is not registered
\* are served under the lock one after another: the first constructs exactly
\* one context and inserts it, every caller is handed the context the map
\* holds for the id, and a call that finds the entry constructs nothing.
C4_SameObject ==
    handed.id # NoId =>
        /\ \A r \in handed.rets : r[1] = Lookup(handed.id)
        /\ Cardinality({r \in handed.rets : r[2]}) <= 1

C4_Step ==
    \A id \in Ids :
        GetOrRegister(id) =>
            /\ Lookup(id)' = GorResult(id)
            /\ Lookup(id) # NoCtx
                 => (constructed' = constructed /\ fragment_contexts' = fragment_contexts)
            /\ Lookup(id) = NoCtx
                 => (GorResult(id) \notin constructed
                     /\ constructed' = constructed \cup {GorResult(id)})

C4_GetOrRegisterOnce == []C4_SameObject /\ [][C4_Step]_vars

\* one caller constructed the context, another was handed the same one
C4_Witness ==
    \E c \in Ctxs :
        /\ handed.rets = {<<c, TRUE>>, <<c, FALSE>>}
        /\ Lookup(handed.id) = c

\* C5 (as claimed): unregister(id) on a registered id removes the entry and
\* leaves the context's completion signal released; on an id that is not
\* registered it changes nothing.
C5_Step ==
    \A id \in Ids :
        Unregister(id) =>
            IF Lookup(id) # NoCtx
            THEN /\ Lookup(id)' = NoCtx
                 /\ \A c \in Ctxs : c = Lookup(id) => promise_ready'[c]
                 /\ ~threw'
            ELSE UNCHANGED <<fragment_contexts, promise_ready, threw>>

C5_UnregisterRemoves == [][C5_Step]_vars

\* C6 (as claimed): unregister never releases the completion signal of a
\* context a second time: whenever it calls set_value() on a context's
\* promise, that promise has not been satisfied before.
C6_Step ==
    \A id \in Ids :
        (Unregister(id) /\ Lookup(id) # NoCtx) => ~promise_ready[Lookup(id)]

C6_ReleasedOnce == [][C6_Step]_vars

\* C7: the map holds at most one context per id, and register_ctx on an id
\* that is present changes nothing: get(id) returns the context registered
\* first, and nothing is thrown.
C7_OnePerId ==
    \A id \in Ids : Cardinality({e \in fragment_contexts : e[1] = id}) <= 1

C7_Step ==
    \A id \in Ids, c \in Ctxs :
        (RegisterCtx(id, c) /\ Lookup(id) # NoCtx)
            => /\ GetResult(id)' = GetResult(id)
               /\ fragment_contexts' = fragment_contexts
               /\ UNCHANGED <<promise_ready, threw>>

C7_FirstRegistrationWins == []C7_OnePerId /\ [][C7_Step]_vars

\* register_ctx was given a second context for an id and the first is still mapped
C7_Witness ==
    /\ dropped # NoneDropped
    /\ GetResult(dropped[1]) # NoCtx
    /\ GetResult(dropped[1]) # dropped[2]

\* C8 (as claimed): when the broadcast cancel(status) returns, every context
\* that was registered when it took the lock is cancelled, and each of them on
\* which no status was latched before (and which nobody else latched or
\* re-prepared meanwhile) has final_status() = status; its steps write to no
\* context outside that set.
C8_Step ==
    \A t \in Threads :
        /\ MgrCancelEnd(t) =>
              \A c \in bcast.ctxs :
                  /\ is_canceled(c)
                  /\ (/\ c \in bcast.unlatched
                      /\ attempt[c] = bcast.attempt[c]
                      /\ winner[c].op \in {"none", "mgr_cancel"})
                        => FinalStatusOutcomes(c) = {pc[t].st}
        /\ (Moves(t) /\ pc[t].op = "mgr_cancel") =>
              \A c \in Ctxs \ bcast.ctxs :
                  /\ final_status'[c] = final_status[c]
                  /\ s_status'[c] = s_status[c]
                  /\ cancel_flag'[c] = cancel_flag[c]

C8_BroadcastCancels == [][C8_Step]_vars

\* C11: set_drivers(drivers) starts a fresh execution attempt: in the state
\* it leaves, the driver counter equals the number of drivers given and
\* final_status() is OK whatever the previous attempt latched; and in the new
\* attempt no call of set_final_status (directly or through cancel / finish)
\* returns without storing until one call has won the latch.
C11_Step ==
    \A c \in Ctxs :
        attempt'[c] = attempt[c] + 1
            => /\ num_drivers'[c] = installed'[c]
               /\ FinalStatusOutcomes(c)' = {StatusOK}
               /\ winner'[c] = NoWinner

C11_NoLossBeforeWin ==
    \A c \in constructed :
        (attempt[c] >= 1 /\ winner[c] = NoWinner) => lost[c] = {}

C11_NextWins ==
    \A t \in Threads :
        (pc[t].step \in {"load", "cas"} /\ attempt[pc[t].ctx] >= 1
            /\ winner[pc[t].ctx] = NoWinner /\ Moves(t))
          => pc'[t].step \in {"cas", "assign"}

C11_FreshAttempt == []C11_NoLossBeforeWin /\ [][C11_Step /\ C11_NextWins]_vars

\* the second attempt started over a latched Cancelled status, and the next
\* set_final_status call won its latch
C11_Witness ==
    /\ attempt[1] = 2
    /\ ~InFlight(1)
    /\ <<2, "Cancelled">> \in diag[1]
    /\ winner[1] = [op |-> "set_final_status", st |-> "InternalError"]
    /\ lost[1] = {}
    /\ FinalStatusOutcomes(1) = {"InternalError"}

\* C12 (as claimed): when the call that wins the latch of an attempt carries a
\* cancellation status the "[Driver] Canceled" diagnostic is emitted, and both
\* the decision to emit it and the reason it prints come from the status that
\* call stores: a diagnostic of the attempt exists exactly when the winner's
\* status is a cancellation, and its reason is the winner's status.
C12_DiagnosticFromStored ==
    \A c \in constructed :
        (attempt[c] >= 1 /\ winner[c] # NoWinner)
            => /\ is_cancelled(winner[c].st) => <<attempt[c], winner[c].st>> \in diag[c]
               /\ \A d \in diag[c] :
                      d[1] = attempt[c] => (is_cancelled(winner[c].st) /\ d[2] = winner[c].st)

\* C13: destroying a fragment context performs its teardown in the fixed
\* order close all inbound runtime filters, release the drivers, close every
\* pipeline, close the plan tree (only when a plan is attached): what the
\* destructor has done so far is always a prefix of that sequence, and the
\* whole sequence once the context is gone.
TeardownOrder ==
    <<Did("close_all_in_filters", 0), Did("drivers_clear", 0)>>
        \o [i \in 1..num_pipes |-> Did("pipe_close", i)]
        \o (IF plan THEN <<Did("plan_close", 0)>> ELSE <<>>)

C13_TeardownOrder ==
    /\ Len(teardown) <= Len(TeardownOrder)
    /\ teardown = SubSeq(TeardownOrder, 1, Len(teardown))
    /\ life.op = "gone" => teardown = TeardownOrder
    /\ life.op \notin {"dtor", "gone"} => teardown = <<>>

\* a context with pipelines and a plan has been destroyed
C13_Witness ==
    /\ life.op = "gone"
    /\ plan
    /\ num_pipes = MaxPipelines
    /\ Len(teardown) = MaxPipelines + 3

\* C14: prepare_all_pipelines prepares the pipelines in list order and fails
\* fast: while it runs exactly the pipelines before its position have been
\* prepared; when pipeline i is the first whose prepare fails, the status of
\* that failure is returned, pipelines 1..i have been prepared and none after
\* i; OK is returned only when every pipeline was prepared and none failed.
C14_FailFast ==
    /\ life.op = "prepare"
          => \A i \in 1..num_pipes : prepared[i] = IF i < life.idx THEN 1 ELSE 0
    /\ failed_first # NoFailure
          => /\ prepare_ret = failed_first.st
             /\ \A i \in 1..num_pipes : prepared[i] = IF i <= failed_first.idx THEN 1 ELSE 0
    /\ prepare_ret = StatusOK
          => /\ failed_first = NoFailure
             /\ \A i \in 1..num_pipes : prepared[i] = 1
    /\ prepare_ret \notin {"none", StatusOK} => failed_first.idx \in 1..num_pipes

\* the second of three pipelines failed to prepare
C14_Witness ==
    /\ num_pipes = MaxPipelines
    /\ failed_first = [idx |-> 2, st |-> "InternalError"]
    /\ prepare_ret = "InternalError"
    /\ prepared[1] = 1 /\ prepared[2] = 1 /\ prepared[3] = 0

\* C15: close_all_pipelines closes every pipeline exactly once per call,
\* whatever happened to the pipeline before: each pipeline has been closed
\* once for every call that has returned, plus once if the running call has
\* passed it; so a context destroyed after a prepare that failed part-way has
\* closed all its pipelines, the unprepared ones included.
C15_ClosesAll ==
    /\ \A i \in 1..num_pipes :
          closed[i] = close_calls
                        + (IF life.step = "close_all_pipelines" /\ i < life.idx THEN 1 ELSE 0)
    /\ life.op = "gone" => (close_calls >= 1 /\ \A i \in 1..num_pipes : closed[i] >= 1)

\* destroyed after the first prepare failed: the pipelines never prepared are closed
C15_Witness ==
    /\ life.op = "gone"
    /\ num_pipes = MaxPipelines
    /\ failed_first.idx = 1
    /\ \A i \in 2..num_pipes : prepared[i] = 0 /\ closed[i] = 1
    /\ closed[1] = 1

\* what the builder context holds and the planner's sequence, together
Built == <<builder, open>>
\* a call left everything as it was and handed its input back
HandedBack ==
    /\ Built' = Built
    /\ last'.ret = open /\ last'.after = open /\ ~last'.aborted
\* a call sealed its input with a new sink and handed back the new source alone
Interposed(policy, dop) ==
    LET x == Len(builder'.exchangers)
        p == builder'.pipelines[Len(builder'.pipelines)]
        sink == p[Len(p)]
        src == last'.ret[1]
    IN  /\ Len(builder'.exchangers) = Len(builder.exchangers) + 1
        /\ builder'.exchangers[x].policy = policy
        /\ SubSeq(builder'.exchangers, 1, x - 1) = builder.exchangers
        /\ Len(builder'.pipelines) = Len(builder.pipelines) + 1
        /\ SubSeq(builder'.pipelines, 1, Len(builder.pipelines)) = builder.pipelines
        /\ p = Append(open, sink)
        /\ sink.kind = "lx_sink" /\ sink.exch = x
        /\ Len(last'.ret) = 1
        /\ src.kind = "lx_source" /\ src.exch = x /\ src.dop = dop
        /\ builder'.exchangers[x].source = src.id
        /\ open' = <<src>>

\* C16: passthrough interpolation on a predecessor whose source parallelism
\* equals num_receivers returns the input sequence and changes nothing in the
\* builder context: no exchange, no sealed pipeline, no operator id and no
\* pseudo plan node id consumed.
C16_Step ==
    \A n \in 1..MaxDop :
        (InterpolatePassthrough(n) /\ SourceDop(open) = n) => HandedBack

C16_PassthroughNoOp == [][C16_Step]_vars

\* passthrough was asked for two receivers on a sequence of parallelism two
C16_Witness ==
    /\ last.op = "passthrough"
    /\ last.n = 2
    /\ Len(last.pred) >= 2
    /\ SourceDop(last.pred) = 2
    /\ last.ret = last.pred

\* C17 (as claimed): broadcast interpolation on a predecessor whose source
\* parallelism equals the requested receiver count returns the identical
\* input sequence, for every receiver count, and creates no exchange and seals
\* no pipeline.
C17_Step ==
    \A n \in 1..MaxReceivers :
        (InterpolateBroadcast(n) /\ SourceDop(open) = n) => HandedBack

C17_BroadcastNoOp == [][C17_Step]_vars

\* C17 (amended): broadcast interpolation hands its input back untouched only
\* for one receiver on a predecessor of parallelism one; for two or more
\* receivers it always creates a Broadcast exchanger, appends the exchange
\* sink to the predecessor sequence and returns the exchange source alone with
\* parallelism num_receivers, also when the predecessor's parallelism equals
\* the receiver count.
C17_AmendedStep ==
    \A n \in 1..MaxReceivers :
        InterpolateBroadcast(n) =>
            /\ (n = 1 /\ SourceDop(open) = 1) => HandedBack
            /\ n >= 2 =>
                  LET x == Len(builder'.exchangers)
                  IN  /\ x = Len(builder.exchangers) + 1
                      /\ builder'.exchangers[x].policy = "Broadcast"
                      /\ Len(last'.after) = Len(open) + 1
                      /\ last'.after[Len(last'.after)].kind = "lx_sink"
                      /\ last'.after[Len(last'.after)].exch = x
                      /\ Len(open') = 1
                      /\ open'[1].kind = "lx_source" /\ open'[1].exch = x
                      /\ open'[1].dop = n

C17_BroadcastNoOpOneReceiver == [][C17_AmendedStep]_vars

\* broadcast to one receiver on a sequence of parallelism one, in a builder
\* that already holds a Broadcast exchange made by an earlier call
C17_Witness ==
    /\ last.op = "broadcast"
    /\ last.n = 1
    /\ SourceDop(last.pred) = 1
    /\ last.ret = last.pred
    /\ \E x \in DOMAIN builder.exchangers : builder.exchangers[x].policy = "Broadcast"

\* C18: passthrough interpolation on a predecessor whose source parallelism
\* differs from num_receivers inserts exactly one Passthrough exchange: it
\* seals exactly one pipeline, the predecessor sequence followed by the new
\* sink, and returns exactly one operator, the new exchange source, whose
\* degree of parallelism is num_receivers.
C18_Step ==
    \A n \in 1..MaxDop :
        (InterpolatePassthrough(n) /\ SourceDop(open) # n)
            => Interposed("Passthrough", n)

C18_PassthroughInterposes == [][C18_Step]_vars

\* a sequence of parallelism two was gathered for one receiver
C18_Witness ==
    /\ last.op = "passthrough"
    /\ last.n = 1
    /\ SourceDop(last.pred) = 2
    /\ Len(last.pred) >= 2
    /\ last.ret[1].kind = "lx_source" /\ last.ret[1].dop = 1
    /\ builder.pipelines[Len(builder.pipelines)] = last.after

\* C19: broadcast interpolation with num_receivers = 1 is passthrough
\* interpolation with one receiver: on every sequence the planner holds and
\* the builder state reached, the two calls hand back the same sequence, the
\* same sealed pipelines, the same id counters and the same exchangers, none
\* of them a Broadcast exchanger.
C19_BroadcastOneIsPassthrough ==
    \A wraps \in BOOLEAN : open # <<>> =>
        LET b == maybe_interpolate_local_broadcast_exchange(builder, open, 1, chunk_size, wraps)
            p == maybe_interpolate_local_passthrough_exchange(builder, open, 1, chunk_size, wraps)
        IN  /\ b = p
            /\ \A x \in DOMAIN b.builder.exchangers :
                   x > Len(builder.exchangers) => b.builder.exchangers[x].policy = "Passthrough"

\* broadcast to one receiver interposed a Passthrough exchange
C19_Witness ==
    /\ last.op = "broadcast"
    /\ last.n = 1
    /\ SourceDop(last.pred) = 2
    /\ last.ret # last.pred
    /\ builder.exchangers[Len(builder.exchangers)].policy = "Passthrough"

\* C20: shuffle interpolation under a target degree of parallelism of at most
\* one returns the input sequence, seals nothing and creates no exchange,
\* whatever the predecessor's parallelism is.
C20_Step ==
    (InterpolateShuffle /\ bld_dop <= 1) => HandedBack

C20_ShuffleNoOp == [][C20_Step]_vars

\* a shuffle under parallelism one on a predecessor of parallelism two
C20_Witness ==
    /\ last.op = "shuffle"
    /\ bld_dop = 1
    /\ SourceDop(last.pred) = 2
    /\ last.ret = last.pred
    /\ builder.exchangers = <<>>

\* C21: gather with exactly one predecessor sequence hands it back unmodified
\* and seals nothing; with k > 1 predecessors it creates one Passthrough
\* exchanger, hands back one new sequence holding the exchange source alone,
\* and seals each of the k predecessors, in order, as its own pipeline with
\* one new sink appended, every sink bound to that one exchanger.
C21_Step ==
    Gather =>
        LET k == Len(preds)
            x == Len(builder'.exchangers)
            np == Len(builder.pipelines)
        IN  /\ ~last'.aborted
            /\ k = 1 => /\ open' = preds[1]
                        /\ preds' = preds
                        /\ builder' = builder
            /\ k > 1 =>
                  /\ x = Len(builder.exchangers) + 1
                  /\ SubSeq(builder'.exchangers, 1, x - 1) = builder.exchangers
                  /\ builder'.exchangers[x].policy = "Passthrough"
                  /\ Len(open') = 1
                  /\ open'[1].kind = "lx_source" /\ open'[1].exch = x
                  /\ builder'.exchangers[x].source = open'[1].id
                  /\ Len(builder'.pipelines) = np + k
                  /\ SubSeq(builder'.pipelines, 1, np) = builder.pipelines
                  /\ \A i \in 1..k :
                        LET p == builder'.pipelines[np + i]
                        IN  /\ Len(p) = Len(preds[i]) + 1
                            /\ SubSeq(p, 1, Len(preds[i])) = preds[i]
                            /\ p[Len(p)].kind = "lx_sink"
                            /\ p[Len(p)].exch = x

C21_GatherToOne == [][C21_Step]_vars

\* two predecessors, one of them two operators long, were gathered
C21_Witness ==
    /\ last.op = "gather"
    /\ last.n = 2
    /\ Len(gathered[1]) = 2
    /\ Len(builder.pipelines) = 2
    /\ Len(builder.exchangers) = 1
    /\ Len(last.ret) = 1

\* a single predecessor was handed to gather and came back as it was
C21_WitnessOne ==
    /\ last.op = "gather"
    /\ last.n = 1
    /\ last.ret = gathered[1]
    /\ builder.pipelines = <<>>
    /\ builder.exchangers = <<>>

\* the input of the call a step makes is malformed: a sequence that is empty
\* or does not begin with a source factory
MalformedInput ==
    /\ last' # last
    /\ IF last'.op = "gather" THEN \E i \in DOMAIN gathered' : ~Dcheck(gathered'[i])
                              ELSE ~Dcheck(last'.pred)

\* C22: every interpolation operation (passthrough, broadcast, shuffle,
\* gather) called on an input sequence that is empty or does not begin with a
\* source factory fails its assertion: it creates no exchange and seals no
\* pipeline.
C22_Step ==
    MalformedInput =>
        /\ last'.aborted
        /\ builder'.exchangers = builder.exchangers
        /\ builder'.pipelines = builder.pipelines

C22_AssertsWellFormed == [][C22_Step]_vars

\* C23: under a fixed target degree of parallelism (>= 2, or no Partition
\* exchange exists), the destination partition is a function of the partition
\* key alone: any two routed rows with equal keys have the same destination,
\* whichever exchange of that parallelism routed them, whichever driver sent
\* them and in whatever order they arrived; and that function is the hash of
\* the key modulo target_dop, so a repeated run under the same target_dop,
\* over predecessors of any parallelism, routes every key as this one does.
C23_RoutingByKey ==
    /\ routed # <<>> => bld_dop >= 2
    /\ \A i, j \in DOMAIN routed :
           routed[i].key = routed[j].key => routed[i].dest = routed[j].dest
    /\ \A i \in DOMAIN routed : routed[i].dest = Hash(routed[i].key) % bld_dop

\* equal keys went through two exchanges from different senders and met in
\* one partition, which is not the first
C23_Witness ==
    \E i, j \in DOMAIN routed :
        /\ routed[i].key = routed[j].key
        /\ routed[i].exch # routed[j].exch
        /\ routed[i].sender # routed[j].sender
        /\ routed[i].dest = routed[j].dest
        /\ routed[i].dest > 0

\* C24: get(id) never creates: for an id that is not registered it returns
\* the not-found indication, for a registered id the registered context, and
\* either way the registry, the set of constructed contexts and the contexts
\* themselves are left as they were.
C24_Step ==
    \A id \in Ids :
        Get(id) =>
            /\ got'.ret = (IF \E e \in fragment_contexts : e[1] = id
                           THEN (CHOOSE e \in fragment_contexts : e[1] = id)[2]
                           ELSE NoCtx)
            /\ fragment_contexts' = fragment_contexts
            /\ constructed' = constructed
            /\ UNCHANGED <<ctxVars, promise_ready>>

C24_GetNeverCreates == [][C24_Step]_vars

\* get has missed on one id while the latest get found a registered context
C24_Witness ==
    /\ got.id # NoId
    /\ got.ret # NoCtx
    /\ <<got.id, got.ret>> \in fragment_contexts
    /\ \E id \in Ids : \A e \in fragment_contexts : e[1] # id

\* C25: once a set_final_status call of the current execution attempt has
\* returned, as the winner of the latch or early because the latch was taken,
\* final_status() returns the status of the winning call and nothing else.
C25_ReturnedSeesWinner ==
    \A c \in constructed :
        (attempt[c] >= 1 /\ (lost[c] # {} \/ stores[c] > 0))
            => FinalStatusOutcomes(c) = {winner[c].st}

\* C26: a cancellation that reached the context before its first set_drivers
\* is still in effect when set_drivers has returned: is_canceled() is true and
\* final_status() reports the cancelling status.
C26_Step ==
    \A c \in Ctxs, n \in 0..MaxDrivers :
        (SetDrivers(c, n) /\ attempt[c] = 0 /\ cancel_called[c])
            => /\ cancel_flag'[c] = TRUE
               /\ final_status'[c] = AddrSStatus
               /\ s_status'[c] \in CancelStatuses

C26_EarlyCancelSurvives == [][C26_Step]_vars

\* C27: the manager's mutex guards the map only: whoever holds it is not
\* inside per-context logic (FragmentContext::cancel and the set_final_status
\* it calls), and a thread inside per-context logic does not hold it.
C27_LockGuardsMapOnly ==
    \A t \in Threads :
        pc[t].step \in {"load", "cas", "assign"} => lock # t

\* C28: between two set_drivers calls every count_down_drivers call, however
\* many are made, leaves the driver counter strictly smaller than it was.
C28_Step ==
    \A c \in Ctxs :
        CountDownDrivers(c) => num_drivers'[c] < num_drivers[c]

C28_CounterOnlyDecreases == [][C28_Step]_vars

\* C29: within one execution attempt count_down_drivers returns true at most
\* once, however many calls are made, and after set_drivers installed an
\* empty driver set no call returns true.
C29_TrueAtMostOnce ==
    \A c \in constructed :
        attempt[c] >= 1 =>
            /\ cd_true[c] <= 1
            /\ installed[c] = 0 => cd_true[c] = 0

\* more calls were made than drivers installed, and one returned true
C29_Witness ==
    /\ installed[1] >= 1
    /\ cd_calls[1] > installed[1]
    /\ cd_true[1] = 1

\* a call was made on an empty driver set and returned false
C29_WitnessEmpty ==
    /\ attempt[1] >= 1
    /\ installed[1] = 0
    /\ cd_calls[1] >= 1
    /\ cd_true[1] = 0

\* C30: every pipeline an interpolation has sealed begins with a source
\* factory and ends with a local-exchange sink, its only sink; and no later
\* step, an operator appended to a sequence the caller still holds included,
\* changes a pipeline that is sealed.
C30_SourceFirstSinkLast ==
    \A i \in DOMAIN builder.pipelines :
        LET p == builder.pipelines[i]
        IN  /\ Len(p) >= 2
            /\ is_source(p[1])
            /\ p[Len(p)].kind = "lx_sink"
            /\ \A j \in 1..(Len(p) - 1) : p[j].kind # "lx_sink"

C30_Step ==
    /\ Len(builder'.pipelines) >= Len(builder.pipelines)
    /\ \A i \in DOMAIN builder.pipelines : builder'.pipelines[i] = builder.pipelines[i]

C30_SealedPipelines == []C30_SourceFirstSinkLast /\ [][C30_Step]_vars

\* gather sealed two sequences and passthrough a third; the caller then
\* appended an operator to the first sequence, which it still holds
C30_Witness ==
    /\ Len(builder.pipelines) = 3
    /\ Len(gathered) = 2
    /\ last.op = "passthrough"
    /\ Len(preds[1]) > Len(builder.pipelines[1])
    /\ preds[1][Len(preds[1])].kind = "operator"

\* every operator factory there is: in the sequence the planner is
\* extending, in the child sequences it holds, and in the sealed pipelines
FactoriesBuilt ==
    UNION {{q[i] : i \in DOMAIN q} :
              q \in {open} \cup {preds[k] : k \in DOMAIN preds}
                           \cup {builder.pipelines[j] : j \in DOMAIN builder.pipelines}}

\* the source factories and the sink factories of exchange x; a memory manager
\* is made once for each exchanger and is told apart by it: the source factory
\* is constructed with the manager itself, a sink factory with the exchanger
\* that holds it
SourcesOf(x) == {f \in FactoriesBuilt : f.kind = "lx_source" /\ f.exch = x}

SinksOf(x) == {f \in FactoriesBuilt : f.kind = "lx_sink" /\ f.exch = x}

\* C31: every local exchange the builder created is bound to exactly one
\* source factory, the one its exchanger was constructed over, and to at least
\* one sink factory; the source and all the sinks carry one pseudo plan node
\* id (a negative one, unlike the planner's) and hold the memory manager of
\* that exchange; no exchange factory is bound to an exchange that was not
\* created; and the operator ids of all factories are pairwise distinct.
C31_ExchangeBinding ==
    /\ \A x \in DOMAIN builder.exchangers :
          /\ Cardinality(SourcesOf(x)) = 1
          /\ Cardinality(SinksOf(x)) >= 1
          /\ \A s \in SourcesOf(x) :
                /\ s.id = builder.exchangers[x].source
                /\ s.pnid < 0
                /\ \A k \in SinksOf(x) : k.pnid = s.pnid
    /\ \A f \in FactoriesBuilt :
          f.kind \in {"lx_source", "lx_sink"} => f.exch \in DOMAIN builder.exchangers
    /\ \A f, g \in FactoriesBuilt : f.id = g.id => f = g

\* a gather bound two sinks to one exchange and a passthrough behind it made
\* a second exchange with one sink
C31_Witness ==
    /\ Len(builder.exchangers) = 2
    /\ Cardinality(SinksOf(1)) = 2
    /\ Cardinality(SinksOf(2)) = 1
    /\ last.op = "passthrough"

\* the exchanger the step has created, the latest of the builder
NewExchanger == builder'.exchangers[Len(builder'.exchangers)]

\* the step has created exactly one exchanger
OneNewExchanger ==
    /\ Len(builder'.exchangers) = Len(builder.exchangers) + 1
    /\ SubSeq(builder'.exchangers, 1, Len(builder.exchangers)) = builder.exchangers

\* C32: the exchange that passthrough interpolation inserts has the memory
\* budget target_batch_rows x max(num_receivers, predecessor_dop), whichever of
\* the two is the larger; for a predecessor of parallelism 4 and one receiver
\* that is target_batch_rows x 4.
C32_Step ==
    \A n \in 1..MaxDop :
        (InterpolatePassthrough(n) /\ SourceDop(open) # n)
            => /\ OneNewExchanger
               /\ NewExchanger.policy = "Passthrough"
               /\ NewExchanger.mem = chunk_size * Max(n, SourceDop(open))

C32_ParallelismFour ==
    \A wraps \in BOOLEAN :
        LET pred == <<Factory("source", builder.next_operator_id, PlanNodeId, 4, 0)>>
            r == maybe_interpolate_local_passthrough_exchange(builder, pred, 1, chunk_size, wraps)
        IN  r.builder.exchangers[Len(r.builder.exchangers)].mem = chunk_size * 4

C32_PassthroughBudget == []C32_ParallelismFour /\ [][C32_Step]_vars

\* one exchange sized by the receivers (one driver, two receivers) and behind
\* it one sized by the predecessor (two drivers, one receiver)
C32_Witness ==
    /\ chunk_size = 2
    /\ Len(builder.exchangers) = 2
    /\ builder.exchangers[1].policy = "Passthrough" /\ builder.exchangers[1].mem = 4
    /\ builder.exchangers[2].policy = "Passthrough" /\ builder.exchangers[2].mem = 4
    /\ builder.pipelines[1][1].dop = 1
    /\ builder.pipelines[2][1].dop = 2
    /\ last.op = "passthrough" /\ last.n = 1

\* C33 (as claimed): broadcast interpolation with num_receivers >= 2 creates
\* one exchange with the Broadcast routing policy whose memory budget is
\* target_batch_rows x num_receivers x num_receivers for every batch size and
\* receiver count, seals the predecessor with the new sink, and returns the
\* exchange source alone, with parallelism num_receivers.
C33_Step ==
    \A n \in 2..MaxReceivers :
        InterpolateBroadcast(n)
            => /\ Interposed("Broadcast", n)
               /\ NewExchanger.mem = chunk_size * n * n

C33_BroadcastBudget == [][C33_Step]_vars

\* C34: shuffle interpolation under a target parallelism of two or more
\* creates one exchange with the Partition routing policy and the memory
\* budget target_batch_rows x target_dop, seals the predecessor with the new
\* sink as one pipeline, and returns the exchange source alone with
\* parallelism target_dop; that parallelism is the number of destination
\* partitions: every row pushed into the exchange goes to one of the
\* partitions 0 .. target_dop - 1.
C34_Step ==
    (InterpolateShuffle /\ bld_dop >= 2)
        => /\ Interposed("Partition", bld_dop)
           /\ NewExchanger.mem = chunk_size * bld_dop
           /\ NewExchanger.senders = SourceDop(open)

C34_Partitions ==
    \A i \in DOMAIN routed :
        /\ builder.exchangers[routed[i].exch].policy = "Partition"
        /\ ExchangeSource(routed[i].exch).dop = bld_dop
        /\ routed[i].dest \in 0..(bld_dop - 1)

C34_ShuffleInterposes == []C34_Partitions /\ [][C34_Step]_vars

\* a predecessor of one driver was shuffled to two partitions over chunks of
\* two rows, and a row went to the second partition
C34_Witness ==
    /\ bld_dop = 2 /\ chunk_size = 2
    /\ Len(builder.exchangers) >= 1
    /\ builder.exchangers[1].policy = "Partition"
    /\ builder.exchangers[1].mem = 4
    /\ builder.exchangers[1].senders = 1
    /\ \E i \in DOMAIN routed : routed[i].exch = 1 /\ routed[i].dest = 1

\* the drivers of all the sequences of a list together
RECURSIVE TotalDop(_)
TotalDop(list) == IF list = <<>> THEN 0 ELSE SourceDop(Head(list)) + TotalDop(Tail(list))

\* C35: gather with k > 1 predecessors gives the one exchange it creates the
\* memory budget sum over the predecessors of predecessor_dop x
\* target_batch_rows, and hands back the exchange source configured with the
\* degree of parallelism of the builder context.
C35_Step ==
    (Gather /\ Len(preds) > 1)
        => /\ OneNewExchanger
           /\ NewExchanger.mem = TotalDop(preds) * chunk_size
           /\ Len(open') = 1
           /\ open'[1].kind = "lx_source"
           /\ open'[1].exch = Len(builder'.exchangers)
           /\ open'[1].dop = bld_dop

C35_GatherBudget == [][C35_Step]_vars

\* predecessors of one and of two drivers were gathered over chunks of two
\* rows under a builder parallelism of one
C35_Witness ==
    /\ last.op = "gather" /\ last.n = 2
    /\ SourceDop(gathered[1]) = 1 /\ SourceDop(gathered[2]) = 2
    /\ chunk_size = 2 /\ bld_dop = 1
    /\ builder.exchangers[1].mem = 6
    /\ last.ret[1].dop = 1

\* the pipelines that begin with the source of exchange x
BeginWithSourceOf(x) ==
    {j \in DOMAIN builder.pipelines :
        builder.pipelines[j][1].kind = "lx_source" /\ builder.pipelines[j][1].exch = x}

\* C36: in the list build() returns, every pipeline that ends in a
\* local-exchange sink stands before the pipeline that begins with the source
\* of the same exchange, which is in the list, and the sequence of the root is
\* the last pipeline of the list.
C36_BuildOrder ==
    last.op = "build" =>
        /\ builder.pipelines # <<>>
        /\ builder.pipelines[Len(builder.pipelines)] = last.pred
        /\ \A i \in DOMAIN builder.pipelines :
              LET p == builder.pipelines[i]
              IN  p[Len(p)].kind = "lx_sink"
                    => /\ BeginWithSourceOf(p[Len(p)].exch) # {}
                       /\ \A j \in BeginWithSourceOf(p[Len(p)].exch) : i < j

\* two children were gathered, the gathered stream was passed through a
\* second exchange and the root sequence was sealed by build()
C36_Witness ==
    /\ last.op = "build"
    /\ Len(builder.pipelines) = 4
    /\ Len(builder.exchangers) = 2
    /\ Len(gathered) = 2
    /\ BeginWithSourceOf(1) = {3}
    /\ BeginWithSourceOf(2) = {4}

\* the callbacks run for request r, and the tasks of r waiting in the queue
RunsOf(r) == {i \in DOMAIN adw.log : adw.log[i].req = r}

QueuedOf(r) == {i \in DOMAIN adw.queue : adw.queue[i].req = r}

\* the DeltaWriter steps a request asks for, in the order they are to be made
StepsAsked(e) ==
    (IF e.data THEN <<"write">> ELSE <<>>)
        \o (IF e.commit_after_write THEN <<"close", "commit">> ELSE <<>>)

\* C37: every request handed to write() or commit() has its callback run
\* exactly once: no callback is run twice, a request whose callback has not
\* run is waiting in the queue, and the queue's executor gets to it.  The
\* callback gets an error exactly when the queue refused the task or a step of
\* write, close, commit failed, no step being made after a failed one; it
\* gets the committed rowset info only when commit_after_write was set and
\* write (if the request carries rows), close and commit succeeded in that
\* order; and the requests the queue took are processed in the order they
\* were handed in.
C37_Once ==
    \A r \in 1..MaxRequests :
        Cardinality(RunsOf(r)) + Cardinality(QueuedOf(r)) = (IF r <= adw.next THEN 1 ELSE 0)

C37_Outcome ==
    \A i \in DOMAIN adw.log :
        LET e == adw.log[i]
            n == Len(e.steps)
        IN  /\ ~e.enqueued => (~e.ok /\ ~e.info /\ e.steps = <<>>)
            /\ n <= Len(StepsAsked(e))
            /\ \A k \in 1..n : e.steps[k].op = StepsAsked(e)[k]
            /\ \A k \in 1..(n - 1) : e.steps[k].ok
            /\ e.enqueued => (e.ok <=> (n = Len(StepsAsked(e)) /\ \A k \in 1..n : e.steps[k].ok))
            /\ e.enqueued => (~e.ok <=> (n >= 1 /\ ~e.steps[n].ok))
            /\ e.info => /\ e.enqueued /\ e.ok /\ e.commit_after_write
                         /\ n = Len(StepsAsked(e))
                         /\ \A k \in 1..n : e.steps[k].ok

C37_InOrder ==
    LET done == SelectSeq(adw.log, LAMBDA e : e.enqueued)
    IN  /\ \A i, j \in DOMAIN done : i < j => done[i].req < done[j].req
        /\ \A i, j \in DOMAIN adw.queue : i < j => adw.queue[i].req < adw.queue[j].req
        /\ \A i \in DOMAIN done, j \in DOMAIN adw.queue : done[i].req < adw.queue[j].req

C37_CallbackOnce ==
    /\ [](C37_Once /\ C37_Outcome /\ C37_InOrder)
    /\ \A r \in 1..MaxRequests : (r <= adw.next) ~> (RunsOf(r) # {})

\* two callbacks have run: one for a commit() that the queue refused, one
\* for a write whose rows were written and that was closed and committed; the
\* destructor has joined the queue
C37_Witness ==
    /\ adw.stop = "joined"
    /\ Len(adw.log) = 2
    /\ \E i \in DOMAIN adw.log :
          /\ adw.log[i].via = "commit" /\ ~adw.log[i].enqueued /\ ~adw.log[i].ok
    /\ \E i \in DOMAIN adw.log :
          /\ adw.log[i].via = "write" /\ adw.log[i].info
          /\ adw.log[i].steps = <<Called("write", TRUE), Called("close", TRUE),
                                  Called("commit", TRUE)>>

\* the live cursors whose _holder points to h
PointingTo(h) == {k \in Cursors : rows.cursor[k].live /\ rows.cursor[k].holder = h}

\* C38 (as claimed): after any sequence of ChunkRowCursor construction, copy,
\* move, copy assignment, move assignment and destruction, the reference count
\* of every holder equals the number of live cursors pointing to it; a holder
\* is deleted exactly when that count has come down to zero; and a deleted
\* holder is never used: no cursor points to it and no call goes through a
\* pointer to it.
C38_RefCounts ==
    /\ rows.fault # "use_after_delete"
    /\ \A h \in Holders :
          /\ rows.holder[h].state = "live"
                => /\ rows.holder[h].ref_count = Cardinality(PointingTo(h))
                   /\ rows.holder[h].held => rows.holder[h].ref_count > 0
          /\ rows.holder[h].state = "deleted"
                => /\ rows.holder[h].held /\ rows.holder[h].ref_count = 0
                   /\ PointingTo(h) = {}

====
